---- MODULE Spec2Model ----
(***************************************************************************)
(* A model of parts of librumur: the scoped symbol table (Symtab.h) and    *)
(* the rule flattener (Rule.cc).                                           *)
(*                                                                         *)
(* AST nodes live at addresses.  clone() yields a node with the same       *)
(* content at an address no live node occupies, so that "the same node"    *)
(* and "an equal copy of the node" are different things in the model, as   *)
(* they are in the program.                                                *)
(***************************************************************************)
EXTENDS Integers, Sequences, FiniteSets, TLC

VARIABLES
  scope,      \* Symtab::scope: the stack of maps name -> stored node
  result,     \* the outcome of the last Symtab call
  declared,   \* history: per open scope, the node last passed to declare
  aborted,    \* an assertion has failed and the process has ended
  heap,       \* the rule and alias nodes that exist: heap[a] is the node at address a
  roots,      \* the rule list under construction (addresses, in source order)
  pc,         \* "build", then "flat" once flatten has returned, then "mutated"
  root,       \* the rule flatten was called on
  flat,       \* the vector flatten returned (addresses)
  orig,       \* history: the heap as it was when flatten was called
  ast,        \* the statement nodes that exist: ast[a] is the node at address a
  body,       \* the statement list under construction (addresses, in source order)
  vres,       \* the outcome of the last validate call
  sys,        \* the checked model: START_RULES, RULES and INVARIANTS
  objs,       \* the State objects allocated and kept: objs[a] is the state at a
  queue,      \* q: the queue of states to expand (addresses)
  seen,       \* the set of states encountered (addresses)
  run,        \* where main is, and its locals
  out,        \* what the checker has printed, and its exit status
  smt,        \* the last call of smt::translate or smt::mangle and its outcome
  gen,        \* what the C generator was last given and what it emitted
  cp,         \* the last copy made of a node: the objects, the source, the copy
  it,         \* a tree and the iterator walking it
  dv          \* a declaration tree and the validation pass over it

symvars == <<scope, result, declared, aborted>>

flatvars == <<heap, roots, pc, root, flat, orig>>

valvars == <<ast, body, vres>>

chkvars == <<sys, objs, queue, seen, run, out>>

smtvars == <<smt>>

genvars == <<gen>>

copyvars == <<cp>>

itervars == <<it>>

declvars == <<dv>>

vars ==
  <<symvars, flatvars, valvars, chkvars, smtvars, genvars, copyvars, itervars,
    declvars>>

\* What the actions of one component leave alone: the other components.
sym_frame ==
  <<flatvars, valvars, chkvars, smtvars,
    genvars, copyvars, itervars, declvars>>

flat_frame ==
  <<symvars, valvars, chkvars, smtvars,
    genvars, copyvars, itervars, declvars>>

val_frame ==
  <<symvars, flatvars, chkvars, smtvars,
    genvars, copyvars, itervars, declvars>>

chk_frame ==
  <<symvars, flatvars, valvars, smtvars,
    genvars, copyvars, itervars, declvars>>

smt_frame ==
  <<symvars, flatvars, valvars, chkvars,
    genvars, copyvars, itervars, declvars>>

gen_frame ==
  <<symvars, flatvars, valvars, chkvars, smtvars,
    copyvars, itervars, declvars>>

copy_frame ==
  <<symvars, flatvars, valvars, chkvars, smtvars,
    genvars, itervars, declvars>>

iter_frame ==
  <<symvars, flatvars, valvars, chkvars, smtvars,
    genvars, copyvars, declvars>>

decl_frame ==
  <<symvars, flatvars, valvars, chkvars, smtvars,
    genvars, copyvars, itervars>>

\* ------------------------------------------------------------------ bounds

MaxScopes == 3

MaxHeap == 4

\* ------------------------------------------------------------ symbol table

Names == {"x", "y"}

DeclKinds == {"ConstDecl", "VarDecl"}

\* The types U that lookup<U> is instantiated with: a concrete declaration
\* kind, or their common base.
LookupKinds == DeclKinds \cup {"Decl"}

NoNode == [addr |-> 0, kind |-> "none", val |-> 0]

\* The declaration nodes of the AST being resolved, each at its own address:
\* two constants and a variable.
DeclPool ==
  { [addr |-> 1, kind |-> "ConstDecl", val |-> 1],
    [addr |-> 2, kind |-> "VarDecl", val |-> 2],
    [addr |-> 3, kind |-> "ConstDecl", val |-> 3] }

PoolNode(a) == CHOOSE d \in DeclPool : d.addr = a

\* dynamic_cast<U*>(n) succeeds
IsA(n, U) == n.kind = U \/ (U = "Decl" /\ n.kind \in DeclKinds)

EmptyMap == [n \in Names |-> NoNode]

NoneDeclared == [n \in Names |-> 0]

NameIdx(n) == IF n = "x" THEN 1 ELSE 2

\* Where the objects made by clone() live.  A node stored in scope i under a
\* name is owned by that map slot and never leaves the table, so it is given
\* the slot's own cell; the clone handed to the caller of lookup lives in a
\* cell of the caller's.  All of these differ from the addresses of the AST's
\* declaration nodes, which is all that clone() guarantees.
SlotAddr(i, name) ==
  Cardinality(DeclPool) + (i - 1) * Cardinality(Names) + NameIdx(name)

CallerAddr == Cardinality(DeclPool) + (MaxScopes + 1) * Cardinality(Names) + 1

\* Node::clone(): same content, a new object.
clone(n, a) == [n EXCEPT !.addr = a]

\* scope.emplace_back()
open_scope(sc) == Append(sc, EmptyMap)

close_scope_keep_global(sc) ==
  IF Len(sc) > 1 THEN SubSeq(sc, 1, Len(sc) - 1) ELSE sc

\* scope.pop_back()
close_scope(sc) == SubSeq(sc, 1, Len(sc) - 1)

\* scope.back()[name] = value
declare(sc, name, stored) == [sc EXCEPT ![Len(sc)][name] = stored]

RECURSIVE lookup_continue(_, _, _, _)
lookup_continue(sc, name, U, i) ==
  IF i = 0 THEN NoNode
  ELSE IF sc[i][name] # NoNode /\ IsA(sc[i][name], U) THEN sc[i][name]
  ELSE lookup_continue(sc, name, U, i - 1)

RECURSIVE lookup_outermost(_, _, _, _)
lookup_outermost(sc, name, U, i) ==
  IF i = 0 THEN NoNode
  ELSE LET below == lookup_outermost(sc, name, U, i - 1)
       IN  IF below # NoNode THEN below
           ELSE IF sc[i][name] # NoNode /\ IsA(sc[i][name], U) THEN sc[i][name]
           ELSE NoNode

\* The loop of lookup<U>, from scope i down to scope 1: the stored node that
\* is returned (cloned), or NoNode when the loop ends or breaks and the
\* function throws.
RECURSIVE lookup(_, _, _, _)
lookup(sc, name, U, i) ==
  IF i = 0 THEN NoNode
  ELSE IF sc[i][name] # NoNode
       THEN IF IsA(sc[i][name], U) THEN sc[i][name] ELSE NoNode
  ELSE lookup(sc, name, U, i - 1)

NoResult ==
  [op |-> "none", name |-> "", U |-> "", status |-> "ok", node |-> NoNode,
   dup |-> FALSE]

\* ------------------------------------------------- components at rest

SymIdle ==
  /\ scope = <<>>
  /\ result = NoResult
  /\ declared = <<>>
  /\ aborted = FALSE

FlatIdle ==
  /\ heap = <<>>
  /\ roots = <<>>
  /\ pc = "build"
  /\ root = 0
  /\ flat = <<>>
  /\ orig = <<>>

NoValidation ==
  [who |-> "none", rtype |-> <<>>, stmts |-> <<>>, msg |-> "", loc |-> 0]

ValIdle ==
  /\ ast = <<>>
  /\ body = <<>>
  /\ vres = NoValidation

NoSystem == [starts |-> <<>>, rules |-> <<>>, invs |-> <<>>]

\* main has not started: nothing allocated, queued, seen or printed.
MainEntry ==
  /\ objs = <<>>
  /\ queue = <<>>
  /\ seen = {}
  /\ run = [pc |-> "start", si |-> 1, s |-> 0, ri |-> 0, succ |-> <<>>,
            next |-> 0, discarded |-> FALSE]
  /\ out = [cex |-> <<>>, arg |-> 0, ret |-> 0, prints |-> 0,
            exit |-> "running"]

ChkIdle ==
  /\ sys = NoSystem
  /\ MainEntry

NoExpr == [kind |-> "none", name |-> <<>>, id |-> 0, args |-> <<>>]

SmtIdle ==
  smt = [call |-> "none", expr |-> NoExpr, name |-> <<>>, id |-> 0,
         status |-> "", str |-> <<>>]

\* An expression as the C generator sees it: its text, whether it is
\* constant, and the value it has (folds to, if constant).
Operand(text, constant, value) ==
  [text |-> text, constant |-> constant, value |-> value]

NoOperand == Operand("", FALSE, 0)

NoQuantifier ==
  [name |-> "", type |-> <<>>, from |-> NoOperand, to |-> NoOperand,
   step |-> <<>>]

NoLoop ==
  [ctype |-> "", name |-> "", init |-> NoOperand, test |-> "",
   bound |-> NoOperand, update |-> "", step |-> NoOperand]

\* A function, rule, start state or property as the C generator sees it:
\* its parameters, the aliases around it and its local declarations.
NoUnit == [kind |-> "", parameters |-> <<>>, aliases |-> <<>>, decls |-> <<>>]

GenIdle ==
  gen = [called |-> FALSE, n |-> NoQuantifier, loop |-> NoLoop,
         unit |-> NoUnit, text |-> <<>>]

\* No copy has been made.
CopyIdle == cp = [op |-> "none", h |-> <<>>, n |-> <<>>, c |-> <<>>, old |-> <<>>]

\* No iterator has been made.
IterIdle ==
  it = [order |-> "none", tree |-> <<>>, remaining |-> <<>>, yielded |-> <<>>]

\* No declaration has been validated.
DeclIdle == dv = [pc |-> "none", tree |-> <<>>, todo |-> <<>>, runs |-> <<>>]

SymInit ==
  /\ SymIdle
  /\ FlatIdle
  /\ ValIdle
  /\ ChkIdle
  /\ SmtIdle
  /\ GenIdle
  /\ CopyIdle
  /\ IterIdle
  /\ DeclIdle

OpenScope ==
  /\ ~aborted
  /\ Len(scope) < MaxScopes
  /\ scope' = open_scope(scope)
  /\ declared' = Append(declared, NoneDeclared)
  /\ result' = [NoResult EXCEPT !.op = "open_scope"]
  /\ UNCHANGED aborted
  /\ UNCHANGED sym_frame

CloseScope ==
  /\ ~aborted
  /\ IF Len(scope) = 0
     THEN /\ aborted' = TRUE
          /\ result' = [NoResult EXCEPT !.op = "close_scope", !.status = "assert"]
          /\ UNCHANGED <<scope, declared>>
     ELSE /\ scope' = close_scope(scope)
          /\ declared' = SubSeq(declared, 1, Len(declared) - 1)
          /\ result' = [NoResult EXCEPT !.op = "close_scope"]
          /\ UNCHANGED aborted
  /\ UNCHANGED sym_frame

Declare ==
  /\ ~aborted
  /\ \E name \in Names, d \in DeclPool :
       IF Len(scope) = 0
       THEN /\ aborted' = TRUE
            /\ result' = [NoResult EXCEPT !.op = "declare", !.name = name,
                                          !.status = "assert"]
            /\ UNCHANGED <<scope, declared>>
       ELSE /\ scope' = declare(scope, name,
                                clone(d, SlotAddr(Len(scope), name)))
            /\ declared' = [declared EXCEPT ![Len(declared)][name] = d.addr]
            /\ result' = [NoResult EXCEPT !.op = "declare", !.name = name,
                            !.dup = (declared[Len(declared)][name] # 0)]
            /\ UNCHANGED aborted
  /\ UNCHANGED sym_frame

Lookup ==
  /\ ~aborted
  /\ \E name \in Names, U \in LookupKinds :
       LET found == lookup(scope, name, U, Len(scope))
       IN  /\ result' =
                IF found = NoNode
                THEN [NoResult EXCEPT !.op = "lookup", !.name = name, !.U = U,
                                      !.status = "unknown symbol"]
                ELSE [NoResult EXCEPT !.op = "lookup", !.name = name, !.U = U,
                        !.node = clone(found, CallerAddr)]
  /\ UNCHANGED <<scope, declared, aborted>>
  /\ UNCHANGED sym_frame

SymNext == OpenScope \/ CloseScope \/ Declare \/ Lookup

SymSpec == SymInit /\ [][SymNext]_vars

\* ---------------------------------------------------- symbol table: claims

\* The declaration node most recently passed to declare(name, ...) in the
\* innermost open scope in which name has been declared (0 when there is none),
\* read from the history of declare calls.
InnermostBinding(name) ==
  LET S == {i \in 1..Len(declared) : declared[i][name] # 0}
  IN  IF S = {} THEN 0
      ELSE declared[CHOOSE i \in S : \A j \in S : j <= i][name]

SameContent(n, m) == n.kind = m.kind /\ n.val = m.val

\* C1: lookup<U>(name) yields the declaration bound by the most recent
\* declare(name, ...) in the innermost open scope that binds name, whenever
\* that declaration is of kind U.
C1_Shadowing ==
  result.op = "lookup" =>
    LET e == InnermostBinding(result.name)
    IN  (e # 0 /\ IsA(PoolNode(e), result.U)) =>
          /\ result.status = "ok"
          /\ SameContent(result.node, PoolNode(e))

\* A lookup from an inner scope that shadows a different outer declaration of
\* the same name.
C1_Witness ==
  /\ result.op = "lookup"
  /\ result.status = "ok"
  /\ Len(declared) >= 2
  /\ declared[Len(declared)][result.name] # 0
  /\ \E j \in 1..(Len(declared) - 1) :
        /\ declared[j][result.name] # 0
        /\ declared[j][result.name] # declared[Len(declared)][result.name]

\* C2: when the innermost binding of name is not of kind U, lookup<U>(name)
\* raises "unknown symbol" and returns nothing, whatever outer scopes bind.
C2_WrongKindStops ==
  result.op = "lookup" =>
    LET e == InnermostBinding(result.name)
    IN  (e # 0 /\ ~IsA(PoolNode(e), result.U)) =>
          /\ result.status = "unknown symbol"
          /\ result.node = NoNode

\* A failed lookup whose name an outer scope binds to a declaration of the
\* kind asked for, below a wrong-kind binding.
C2_Witness ==
  /\ result.op = "lookup"
  /\ result.status = "unknown symbol"
  /\ InnermostBinding(result.name) # 0
  /\ \E j \in 1..Len(declared) :
        /\ declared[j][result.name] # 0
        /\ IsA(PoolNode(declared[j][result.name]), result.U)

\* C3: a declare of a name the topmost scope already binds is reported as a
\* failure.
C3_DuplicateIsFailure ==
  (result.op = "declare" /\ result.dup) => result.status # "ok"

C5_SameNodeIdentity ==
  (result.op = "lookup" /\ result.status = "ok") =>
    result.node.addr = InnermostBinding(result.name)

\* ------------------------------------------------------------ rule flattener

LeafTypes == {"SimpleRule", "StartState", "PropertyRule"}

\* The quantifier lists a ruleset is written with, and the alias lists an
\* alias-rule is written with (quantifiers and aliases by name).
QuantLists == {<<"i">>, <<"j">>, <<"i", "j">>}

AliasLists == {<<"a">>, <<"a", "b">>}

\* Rule::Rule(name_, loc_) and the leaf constructors: no quantifiers, no
\* aliases.  loc is the source position, different for every node written.
LeafNode(type, loc) ==
  [type |-> type, name |-> "r", loc |-> loc, quantifiers |-> <<>>,
   aliases |-> <<>>, rules |-> <<>>, val |-> "body"]

\* Ruleset::Ruleset(quantifiers_, rules_, loc_)
RulesetNode(qs, rs, loc) ==
  [type |-> "Ruleset", name |-> "", loc |-> loc, quantifiers |-> qs,
   aliases |-> <<>>, rules |-> rs, val |-> ""]

\* AliasRule::AliasRule(aliases_, rules_, loc_)
AliasRuleNode(as, rs, loc) ==
  [type |-> "AliasRule", name |-> "", loc |-> loc, quantifiers |-> <<>>,
   aliases |-> as, rules |-> rs, val |-> ""]

\* An AliasDecl: its name and the expression it stands for.
AliasDeclNode(name, loc) ==
  [type |-> "AliasDecl", name |-> name, loc |-> loc, quantifiers |-> <<>>,
   aliases |-> <<>>, rules |-> <<>>, val |-> "expr"]

\* Quantifier::Quantifier(const Quantifier&): a copy equal to the original
\* that shares nothing with it.
Quantifier_copy(q) == q

\* a->clone() for each alias of a list, in order: the heap with the clones
\* added, and their addresses.
RECURSIVE clone_aliases(_, _, _)
clone_aliases(h, as, k) ==
  IF k = 0 THEN [h |-> h, out |-> <<>>]
  ELSE LET p == clone_aliases(h, as, k - 1)
       IN  [h |-> Append(p.h, p.h[as[k]]), out |-> Append(p.out, Len(p.h) + 1)]

\* clone() of a leaf rule, through Rule::Rule(const Rule&): a new node with the
\* same name and quantifiers, and a clone of each alias.
Rule_clone(h, a) ==
  LET ca == clone_aliases(h, h[a].aliases, Len(h[a].aliases))
      n  == [h[a] EXCEPT
               !.quantifiers = [k \in 1..Len(@) |-> Quantifier_copy(@[k])],
               !.aliases = ca.out]
  IN  [h |-> Append(ca.h, n), out |-> Len(ca.h) + 1]

Rule_flatten_noclone(h, a) == [h |-> h, out |-> <<a>>]

\* Rule::flatten: { Ptr<Rule>(clone()) }
Rule_flatten(h, a) ==
  LET c == Rule_clone(h, a) IN [h |-> c.h, out |-> <<c.out>>]

insert_quantifiers_back(fq, qs, k) ==
  fq \o [j \in 1..k |-> Quantifier_copy(qs[j])]

\* for (const Quantifier &q : quantifiers)
\*   f->quantifiers.insert(f->quantifiers.begin(), q);
\* after the first k quantifiers.
RECURSIVE insert_quantifiers(_, _, _)
insert_quantifiers(fq, qs, k) ==
  IF k = 0 THEN fq
  ELSE <<Quantifier_copy(qs[k])>> \o insert_quantifiers(fq, qs, k - 1)

\* for (const std::shared_ptr<AliasDecl> &a : aliases)
\*   f->aliases.insert(f->aliases.begin(), std::shared_ptr<AliasDecl>(a->clone()));
\* after the first k aliases: the heap, with rule f changed and the clones added.
RECURSIVE insert_aliases(_, _, _, _)
insert_aliases(h, f, as, k) ==
  IF k = 0 THEN h
  ELSE LET h1 == insert_aliases(h, f, as, k - 1)
           h2 == Append(h1, h1[as[k]])
       IN  [h2 EXCEPT ![f].aliases = <<Len(h1) + 1>> \o @]

RECURSIVE flatten(_, _)
RECURSIVE Ruleset_flatten_loop(_, _, _)
RECURSIVE AliasRule_flatten_loop(_, _, _)

\* The body of Ruleset::flatten's loop over r->flatten(), for the first k rules
\* it returned.
RECURSIVE Ruleset_insert_all(_, _, _, _)
Ruleset_insert_all(h, fs, qs, k) ==
  IF k = 0 THEN h
  ELSE LET h1 == Ruleset_insert_all(h, fs, qs, k - 1)
       IN  [h1 EXCEPT ![fs[k]].quantifiers = insert_quantifiers(@, qs, Len(qs))]

\* Ruleset::flatten after the first k inner rules: the heap and rs.
Ruleset_flatten_loop(h, a, k) ==
  IF k = 0 THEN [h |-> h, out |-> <<>>]
  ELSE LET p == Ruleset_flatten_loop(h, a, k - 1)
           f == flatten(p.h, p.h[a].rules[k])
       IN  [h   |-> Ruleset_insert_all(f.h, f.out, f.h[a].quantifiers, Len(f.out)),
            out |-> p.out \o f.out]

Ruleset_flatten(h, a) == Ruleset_flatten_loop(h, a, Len(h[a].rules))

\* The body of AliasRule::flatten's loop over r->flatten(), for the first k
\* rules it returned.
RECURSIVE AliasRule_insert_all(_, _, _, _)
AliasRule_insert_all(h, fs, a, k) ==
  IF k = 0 THEN h
  ELSE LET h1 == AliasRule_insert_all(h, fs, a, k - 1)
       IN  insert_aliases(h1, fs[k], h1[a].aliases, Len(h1[a].aliases))

\* AliasRule::flatten after the first k inner rules: the heap and rs.
AliasRule_flatten_loop(h, a, k) ==
  IF k = 0 THEN [h |-> h, out |-> <<>>]
  ELSE LET p == AliasRule_flatten_loop(h, a, k - 1)
           f == flatten(p.h, p.h[a].rules[k])
       IN  [h   |-> AliasRule_insert_all(f.h, f.out, a, Len(f.out)),
            out |-> p.out \o f.out]

AliasRule_flatten(h, a) == AliasRule_flatten_loop(h, a, Len(h[a].rules))

flatten_alias_not_overridden(h, a) ==
  IF h[a].type = "Ruleset" THEN Ruleset_flatten(h, a) ELSE Rule_flatten(h, a)

\* r->flatten(): the virtual call.  The heap after the call and the addresses
\* of the rules returned.
flatten(h, a) ==
  CASE h[a].type = "Ruleset"   -> Ruleset_flatten(h, a)
    [] h[a].type = "AliasRule" -> AliasRule_flatten(h, a)
    [] OTHER                   -> Rule_flatten(h, a)

LastK(s, k) == SubSeq(s, Len(s) - k + 1, Len(s))

FirstBut(s, k) == SubSeq(s, 1, Len(s) - k)

\* The AliasDecl nodes of an alias list, placed after a heap of n nodes.
NewAliasDecls(names, n) ==
  [k \in 1..Len(names) |-> AliasDeclNode(names[k], n + k)]

FlatInit ==
  /\ SymIdle
  /\ FlatIdle
  /\ ValIdle
  /\ ChkIdle
  /\ SmtIdle
  /\ GenIdle
  /\ CopyIdle
  /\ IterIdle
  /\ DeclIdle

\* A simple rule, start state or property rule is written.
NewLeaf ==
  /\ pc = "build"
  /\ Len(heap) < MaxHeap
  /\ \E type \in LeafTypes :
       /\ heap' = Append(heap, LeafNode(type, Len(heap) + 1))
       /\ roots' = Append(roots, Len(heap) + 1)
  /\ UNCHANGED <<pc, root, flat, orig, flat_frame>>

\* A ruleset is written around the last k rules.
NewRuleset ==
  /\ pc = "build"
  /\ Len(heap) < MaxHeap
  /\ \E qs \in QuantLists, k \in 0..Len(roots) :
       /\ heap' = Append(heap, RulesetNode(qs, LastK(roots, k), Len(heap) + 1))
       /\ roots' = Append(FirstBut(roots, k), Len(heap) + 1)
  /\ UNCHANGED <<pc, root, flat, orig, flat_frame>>

\* An alias-rule, with its alias declarations, is written around the last k
\* rules.
NewAliasRule ==
  /\ pc = "build"
  /\ \E as \in AliasLists, k \in 0..Len(roots) :
       /\ Len(heap) + Len(as) < MaxHeap
       /\ LET decls == NewAliasDecls(as, Len(heap))
              h1    == heap \o decls
              addrs == [j \in 1..Len(as) |-> Len(heap) + j]
          IN  /\ heap' = Append(h1, AliasRuleNode(addrs, LastK(roots, k), Len(h1) + 1))
              /\ roots' = Append(FirstBut(roots, k), Len(h1) + 1)
  /\ UNCHANGED <<pc, root, flat, orig, flat_frame>>

\* r->flatten() on a rule of the rule list.
Flatten ==
  /\ pc = "build"
  /\ \E i \in 1..Len(roots) :
       LET f == flatten(heap, roots[i])
       IN  /\ heap' = f.h
           /\ flat' = f.out
           /\ root' = roots[i]
           /\ orig' = heap
           /\ pc' = "flat"
  /\ UNCHANGED <<roots, flat_frame>>

\* The caller changes a rule it was returned: its name and its quantifier
\* vector.
MutateRule ==
  /\ pc \in {"flat", "mutated"}
  /\ \E i \in 1..Len(flat) :
       /\ heap[flat[i]].name # "mutated"
       /\ heap' = [heap EXCEPT ![flat[i]].name = "mutated",
                               ![flat[i]].quantifiers = <<>>]
  /\ pc' = "mutated"
  /\ UNCHANGED <<roots, root, flat, orig, flat_frame>>

\* The caller changes an alias declaration through a rule it was returned.
MutateAlias ==
  /\ pc \in {"flat", "mutated"}
  /\ \E i \in 1..Len(flat) :
       \E k \in 1..Len(heap[flat[i]].aliases) :
         /\ heap[heap[flat[i]].aliases[k]].val # "mutated"
         /\ heap' = [heap EXCEPT ![heap[flat[i]].aliases[k]].val = "mutated"]
  /\ pc' = "mutated"
  /\ UNCHANGED <<roots, root, flat, orig, flat_frame>>

FlatNext ==
  NewLeaf \/ NewRuleset \/ NewAliasRule \/ Flatten \/ MutateRule \/ MutateAlias

FlatSpec == FlatInit /\ [][FlatNext]_vars

\* ---------------------------------------------------- rule flattener: claims

\* The leaf rules below rule a, left to right, each with the rulesets and
\* alias-rules that enclose it (outermost first).
RECURSIVE Leaves(_, _, _)
RECURSIVE LeavesOfList(_, _, _, _)
Leaves(h, a, chain) ==
  IF h[a].type \in LeafTypes THEN << [leaf |-> a, chain |-> chain] >>
  ELSE LeavesOfList(h, h[a].rules, Append(chain, a), Len(h[a].rules))

LeavesOfList(h, rs, chain, k) ==
  IF k = 0 THEN <<>>
  ELSE LeavesOfList(h, rs, chain, k - 1) \o Leaves(h, rs[k], chain)

\* The rules, alias-rules and rulesets of the tree below rule a.
RECURSIVE TreeNodes(_, _)
TreeNodes(h, a) ==
  {a} \cup UNION {TreeNodes(h, h[a].rules[k]) : k \in 1..Len(h[a].rules)}

\* What a list of alias declarations says: their names and expressions.
AliasContents(h, as) ==
  [k \in 1..Len(as) |-> [name |-> h[as[k]].name, val |-> h[as[k]].val]]

\* The rules that flattening the inner rules of rule a yields, one after the
\* other: their quantifier lists and alias lists.
RECURSIVE InnerFlat(_, _, _)
InnerFlat(h, a, k) ==
  IF k = 0 THEN <<>>
  ELSE InnerFlat(h, a, k - 1) \o
       LET f == flatten(h, h[a].rules[k])
       IN  [i \in 1..Len(f.out) |->
              [quantifiers |-> f.h[f.out[i]].quantifiers,
               aliases     |-> AliasContents(f.h, f.h[f.out[i]].aliases)]]

Count(s, x) == Cardinality({k \in 1..Len(s) : s[k] = x})

IsPermutation(s, t) ==
  /\ Len(s) = Len(t)
  /\ \A k \in 1..Len(s) : Count(s, s[k]) = Count(t, s[k])

\* The rulesets among the enclosing nodes of a leaf, outermost first.
RulesetsOf(h, chain) == SelectSeq(chain, LAMBDA a : h[a].type = "Ruleset")

\* s is made of one block per ruleset of rsets, in that order, each block a
\* rearrangement of that ruleset's quantifiers, followed by rest.
RECURSIVE OuterToInner(_, _, _, _)
OuterToInner(h, s, rsets, rest) ==
  IF rsets = <<>> THEN s = rest
  ELSE LET n == Len(h[Head(rsets)].quantifiers)
       IN  /\ Len(s) >= n
           /\ IsPermutation(SubSeq(s, 1, n), h[Head(rsets)].quantifiers)
           /\ OuterToInner(h, SubSeq(s, n + 1, Len(s)), Tail(rsets), rest)

\* C6: flattening a ruleset with quantifiers [q1, ..., qn] gives rules whose
\* quantifier lists are [q1, ..., qn] followed by the quantifier list of the
\* flattened inner rule.
C6_QuantifierOrderPreserved ==
  (pc = "flat" /\ orig[root].type = "Ruleset") =>
    LET inner == InnerFlat(orig, root, Len(orig[root].rules))
    IN  /\ Len(flat) = Len(inner)
        /\ \A i \in 1..Len(flat) :
             heap[flat[i]].quantifiers =
               orig[root].quantifiers \o inner[i].quantifiers

\* C7: in every rule flatten produces, the quantifiers of an outer ruleset come
\* before those of every ruleset nested inside it.
C7_OuterBeforeInner ==
  pc = "flat" =>
    LET L == Leaves(orig, root, <<>>)
    IN  \A i \in 1..Len(flat) :
          i <= Len(L) =>
            OuterToInner(orig, heap[flat[i]].quantifiers,
                         RulesetsOf(orig, L[i].chain),
                         orig[L[i].leaf].quantifiers)

\* A rule produced from below two nested rulesets with different quantifiers.
C7_Witness ==
  /\ pc = "flat"
  /\ \E i \in 1..Len(flat) :
       LET rsets == RulesetsOf(orig, Leaves(orig, root, <<>>)[i].chain)
       IN  /\ Len(rsets) >= 2
           /\ orig[rsets[1]].quantifiers = <<"i">>
           /\ orig[rsets[2]].quantifiers = <<"j">>
           /\ heap[flat[i]].quantifiers = <<"i", "j">>

\* C8: flattening an alias-rule with aliases [a1, ..., an] gives rules whose
\* alias lists are [a1, ..., an] followed by the alias list of the flattened
\* inner rule.
C8_AliasOrderPreserved ==
  (pc = "flat" /\ orig[root].type = "AliasRule") =>
    LET inner == InnerFlat(orig, root, Len(orig[root].rules))
    IN  /\ Len(flat) = Len(inner)
        /\ \A i \in 1..Len(flat) :
             AliasContents(heap, heap[flat[i]].aliases) =
               AliasContents(orig, orig[root].aliases) \o inner[i].aliases

\* C9: flatten returns leaf rules only, one per leaf rule of the tree, in the
\* left-to-right order of the leaves.
C9_OnePerLeafInOrder ==
  pc = "flat" =>
    LET L == Leaves(orig, root, <<>>)
    IN  /\ Len(flat) = Len(L)
        /\ \A i \in 1..Len(flat) :
             /\ heap[flat[i]].type \in LeafTypes
             /\ i <= Len(L) =>
                  /\ heap[flat[i]].type = orig[L[i].leaf].type
                  /\ heap[flat[i]].loc = orig[L[i].leaf].loc
                  /\ heap[flat[i]].name = orig[L[i].leaf].name

\* A tree with an empty ruleset or alias-rule in it and at least two leaves has
\* been flattened.
C9_Witness ==
  /\ pc = "flat"
  /\ Len(flat) >= 2
  /\ \E a \in TreeNodes(orig, root) :
       orig[a].type \notin LeafTypes /\ orig[a].rules = <<>>

\* C10: flatten leaves every node that existed before the call as it was, and
\* so does changing the rules it returned.
C10_FlattenIsPure ==
  pc \in {"flat", "mutated"} =>
    /\ Len(heap) >= Len(orig)
    /\ \A a \in 1..Len(orig) : heap[a] = orig[a]

\* A returned rule and one of its aliases have been changed, under a tree with
\* a ruleset in it.
C10_Witness ==
  /\ pc = "mutated"
  /\ \E i \in 1..Len(flat) :
       /\ heap[flat[i]].name = "mutated"
       /\ \E k \in 1..Len(heap[flat[i]].aliases) :
            heap[heap[flat[i]].aliases[k]].val = "mutated"
  /\ \E a \in TreeNodes(orig, root) : orig[a].type = "Ruleset"

\* ======================================================================
\* Validation of return statements (Rule.cc, Function.cc)
\* ======================================================================
\* A pointer is a sequence: <<>> is nullptr, <<x>> points to x.

MaxStmts == 3

RangeType == [variant |-> "Range", min |-> "0", max |-> "3"]

EnumType == [variant |-> "Enum", members |-> <<"A", "B">>]

\* A TypeExprID: a type written as the name of a declared type.
RangeTypeID == [variant |-> "TypeExprID", name |-> "t", referent |-> RangeType]

EnumTypeID == [variant |-> "TypeExprID", name |-> "u", referent |-> EnumType]

TypeExprs == {RangeType, EnumType, RangeTypeID, EnumTypeID}

\* TypeExpr::resolve: the type a name stands for, a structural type itself.
resolve(t) == IF t.variant = "TypeExprID" THEN t.referent ELSE t

\* operator== of type expressions: structural, and false between nodes of
\* different classes, as every operator== of the library is.
TypeExpr_eq(t, u) ==
  /\ t.variant = u.variant
  /\ t = u

\* What Return::expr may be: absent, a bare number (type() is nullptr), or
\* an expression of some type.
ReturnExprs ==
  {<<>>, <<[type |-> <<>>]>>, <<[type |-> <<RangeType>>]>>,
   <<[type |-> <<RangeTypeID>>]>>}

BlockKinds == {"If", "While"}

ReturnNode(e, a) ==
  [kind |-> "Return", expr |-> e, kids |-> <<>>, callee |-> <<>>, loc |-> a]

\* A statement that contains statements.
BlockNode(kind, kids, a) ==
  [kind |-> kind, expr |-> <<>>, kids |-> kids, callee |-> <<>>, loc |-> a]

\* A call: callee is the body of the function it resolves to.
CallNode(kind, callee, a) ==
  [kind |-> kind, expr |-> <<>>, kids |-> <<>>, callee |-> callee, loc |-> a]

NoError == [msg |-> "", loc |-> 0]

Error(msg, loc) == [msg |-> msg, loc |-> loc]

\* ConstTraversal's default handler: the statements a statement contains.
children(n) == n.kids

\* ---- Rule.cc, ReturnChecker

Rule_visit_call_into_callee(n) == n.callee

\* visit(const FunctionCall&) and visit(const ProcedureCall&): nothing
\* below a call is dispatched.
Rule_visit_call(n) == <<>>

Rule_visit_return(n) ==
  IF n.expr # <<>>
    THEN Error("return statement in rule or startstate returns a value", n.loc)
    ELSE NoError

RECURSIVE Rule_dispatch(_, _)
RECURSIVE Rule_dispatch_all(_, _, _)
\* dispatch: the first error thrown below the node at a, NoError if none is.
Rule_dispatch(h, a) ==
  CASE h[a].kind = "Return" -> Rule_visit_return(h[a])
    [] h[a].kind \in {"FunctionCall", "ProcedureCall"} ->
         Rule_dispatch_all(h, Rule_visit_call(h[a]), 1)
    [] OTHER -> Rule_dispatch_all(h, children(h[a]), 1)

Rule_dispatch_all(h, as, i) ==
  IF i > Len(as) THEN NoError
  ELSE LET r == Rule_dispatch(h, as[i])
       IN IF r.msg # "" THEN r ELSE Rule_dispatch_all(h, as, i + 1)

\* SimpleRule::validate and StartState::validate on a rule with this body.
Rule_validate(h, stmts) == Rule_dispatch_all(h, stmts, 1)

\* ---- Function.cc, ReturnChecker

Function_visit_return_inverted(rt, n) ==
  IF rt = <<>>
    THEN IF n.expr = <<>>
           THEN Error("statement returns a value from a procedure", n.loc)
           ELSE NoError
    ELSE NoError

Function_visit_return(rt, n) ==
  IF rt = <<>>
    THEN IF n.expr # <<>>
           THEN Error("statement returns a value from a procedure", n.loc)
           ELSE NoError
  ELSE IF n.expr = <<>>
    THEN Error("empty return statement in a function", n.loc)
  ELSE IF n.expr[1].type = <<>>
    THEN IF resolve(rt[1]).variant # "Range"
           THEN Error("returning a number from a function that does not return a range",
                      n.loc)
           ELSE NoError
  ELSE IF ~TypeExpr_eq(n.expr[1].type[1], rt[1])
    THEN Error("returning incompatible typed value from a function", n.loc)
  ELSE NoError

RECURSIVE Function_dispatch(_, _, _)
RECURSIVE Function_dispatch_all(_, _, _, _)
Function_dispatch(h, rt, a) ==
  IF h[a].kind = "Return" THEN Function_visit_return(rt, h[a])
  ELSE Function_dispatch_all(h, rt, children(h[a]), 1)

Function_dispatch_all(h, rt, as, i) ==
  IF i > Len(as) THEN NoError
  ELSE LET r == Function_dispatch(h, rt, as[i])
       IN IF r.msg # "" THEN r ELSE Function_dispatch_all(h, rt, as, i + 1)

\* Function::validate on a function with this return type and body.
Function_validate(h, rt, stmts) == Function_dispatch_all(h, rt, stmts, 1)

ValInit ==
  /\ SymIdle
  /\ FlatIdle
  /\ ValIdle
  /\ ChkIdle
  /\ SmtIdle
  /\ GenIdle
  /\ CopyIdle
  /\ IterIdle
  /\ DeclIdle

\* A return statement is written.
NewReturn ==
  /\ Len(ast) < MaxStmts
  /\ \E e \in ReturnExprs :
       /\ ast' = Append(ast, ReturnNode(e, Len(ast) + 1))
       /\ body' = Append(body, Len(ast) + 1)
  /\ UNCHANGED <<vres, val_frame>>

\* The last k statements written become the body of an if, for or while.
NewBlock ==
  /\ Len(ast) < MaxStmts
  /\ \E kind \in BlockKinds, k \in 1..Len(body) :
       /\ ast' = Append(ast, BlockNode(kind, LastK(body, k), Len(ast) + 1))
       /\ body' = Append(FirstBut(body, k), Len(ast) + 1)
  /\ UNCHANGED <<vres, val_frame>>

\* The last k statements written become the body of a function or
\* procedure, and a call of it is written in their place.
NewCall ==
  /\ Len(ast) < MaxStmts
  /\ \E kind \in {"FunctionCall", "ProcedureCall"}, k \in 1..Len(body) :
       /\ ast' = Append(ast, CallNode(kind, LastK(body, k), Len(ast) + 1))
       /\ body' = Append(FirstBut(body, k), Len(ast) + 1)
  /\ UNCHANGED <<vres, val_frame>>

\* validate() of a simple rule or start state whose body is the
\* statements written.
ValidateRule ==
  /\ \E who \in {"SimpleRule", "StartState"} :
       LET r == Rule_validate(ast, body)
       IN vres' = [who |-> who, rtype |-> <<>>, stmts |-> body,
                   msg |-> r.msg, loc |-> r.loc]
  /\ UNCHANGED <<ast, body, val_frame>>

\* validate() of a function (a procedure when rt is nullptr) whose body is
\* the statements written.
ValidateFunction ==
  /\ \E rt \in {<<>>} \cup {<<t>> : t \in TypeExprs} :
       LET r == Function_validate(ast, rt, body)
       IN vres' = [who |-> "Function", rtype |-> rt, stmts |-> body,
                   msg |-> r.msg, loc |-> r.loc]
  /\ UNCHANGED <<ast, body, val_frame>>

ValNext ==
  \/ NewReturn
  \/ NewBlock
  \/ NewCall
  \/ ValidateRule
  \/ ValidateFunction

ValSpec == ValInit /\ [][ValNext]_vars

\* ------------------------------------------------ claims on validation

\* The statements of a statement list in traversal order: each statement
\* before the statements it contains, those in source order; what a call
\* resolves to is not part of the statement.
RECURSIVE StmtOrder(_, _)
StmtOrder(h, as) ==
  IF as = <<>> THEN <<>>
  ELSE <<Head(as)>> \o StmtOrder(h, h[Head(as)].kids) \o StmtOrder(h, Tail(as))

\* The positions in the traversal order of the validated body that hold a
\* return statement with an expression.
ValueReturns ==
  {i \in DOMAIN StmtOrder(ast, vres.stmts) :
     /\ ast[StmtOrder(ast, vres.stmts)[i]].kind = "Return"
     /\ ast[StmtOrder(ast, vres.stmts)[i]].expr # <<>>}

\* The validated body has a call whose function returns a value.
CallOfValueReturning ==
  \E i \in DOMAIN StmtOrder(ast, vres.stmts) :
    \E j \in DOMAIN StmtOrder(ast, ast[StmtOrder(ast, vres.stmts)[i]].callee) :
      LET n == ast[StmtOrder(ast, ast[StmtOrder(ast, vres.stmts)[i]].callee)[j]]
      IN n.kind = "Return" /\ n.expr # <<>>

\* C11: validate of a simple rule or start state fails with "return
\* statement in rule or startstate returns a value" exactly when a return
\* with an expression occurs in the rule at any nesting depth, what is
\* inside the functions and procedures it calls not counted; otherwise it
\* does not fail.
C11_RuleReturnsNoValue ==
  vres.who \in {"SimpleRule", "StartState"} =>
    /\ (vres.msg = "return statement in rule or startstate returns a value")
         <=> (ValueReturns # {})
    /\ (ValueReturns = {}) => (vres.msg = "")

\* A rule whose body first calls a value-returning function and then has
\* a return with an expression failed, at that return.
C11_Witness ==
  /\ vres.who = "SimpleRule"
  /\ vres.msg # ""
  /\ CallOfValueReturning
  /\ \E i \in DOMAIN vres.stmts :
       /\ vres.stmts[i] = vres.loc
       /\ i > 1
       /\ ast[vres.stmts[1]].callee # <<>>

\* The smallest element of a non-empty set of numbers.
Least(S) == CHOOSE x \in S : \A y \in S : x <= y

Accepts(T, n) ==
  /\ n.expr # <<>>
  /\ n.expr[1].type = <<>> => resolve(T).variant = "Range"
  /\ n.expr[1].type # <<>> => resolve(n.expr[1].type[1]) = resolve(T)

\* C13: validate of a function with return type T succeeds exactly when
\* every return of its body is acceptable for T; in particular a return
\* whose expression's type resolves to the same structural type as T is
\* accepted.
C13_FunctionReturnMatches ==
  (vres.who = "Function" /\ vres.rtype # <<>>) =>
    ((vres.msg = "") <=>
       \A i \in DOMAIN StmtOrder(ast, vres.stmts) :
         ast[StmtOrder(ast, vres.stmts)[i]].kind = "Return" =>
           Accepts(vres.rtype[1], ast[StmtOrder(ast, vres.stmts)[i]]))

\* ======================================================================
\* The generated checker's main loop (resources/footer.cc)
\* ======================================================================
\* The checked model is a counter: a state is a value in Vals.

MaxVal == 2

Vals == 0..MaxVal

\* What a rule or start state yields where its body raises an Error.
RuleError == -1

RuleNames == {"inc", "both", "err"}

\* rule.get_iterable(s): the successors the rule yields on a state of value
\* v, in order.  "inc" is guarded by v < MaxVal; "both" is a ruleset of two
\* rules, one leaving the state as it is and one resetting it; "err" resets
\* the largest state and then raises.
get_iterable(rule, v) ==
  CASE rule = "inc" -> IF v < MaxVal THEN <<v + 1>> ELSE <<>>
    [] rule = "both" -> <<v, 0>>
    [] rule = "err" -> IF v = MaxVal THEN <<0, RuleError>> ELSE <<>>

\* Two start states, each the value its body sets or RuleError where the
\* body raises; two rules; and two invariants, each of which forbids one
\* value (MaxVal + 1: none that a state can have).
Systems ==
  [starts : [1..2 -> Vals \cup {RuleError}], rules : [1..2 -> RuleNames],
   invs : [1..2 -> 0..(MaxVal + 1)]]

\* inv.guard(s)
guard(inv, v) == v # inv

\* The loop over INVARIANTS finds no failing guard.
PassesAll(v) == \A i \in DOMAIN sys.invs : guard(sys.invs[i], v)

\* new State, with the back-link to the state it was generated from.
NewState(v, prev) == [val |-> v, previous |-> prev]

IsSeen_never(v) == FALSE

IsSeen_always(v) == TRUE

\* seen.insert(s).second is false: a state equal to s is in the set.
IsSeen(v) == \E a \in seen : objs[a].val = v

seen_replace(S, a) == {a}

\* seen.insert(s) of a state that is not in the set.
seen_insert(S, a) == S \cup {a}

\* Queue::push and Queue::pop: first in, first out.
push(qs, a) == Append(qs, a)

\* s = next, before the throw on a failed invariant.
on_violation(s, next) == next

RECURSIVE print_counterexample_unnumbered(_, _)
print_counterexample_unnumbered(h, a) ==
  IF h[a].previous = 0
    THEN [lines |-> <<[step |-> 0, state |-> a]>>, step |-> 0]
    ELSE LET r == print_counterexample_unnumbered(h, h[a].previous)
         IN [lines |-> Append(r.lines, [step |-> r.step, state |-> a]),
             step |-> r.step]

\* print_counterexample(s): the lines it prints, each "State <step>:" and
\* the state, and the step it returns.
RECURSIVE print_counterexample(_, _)
print_counterexample(h, a) ==
  IF h[a].previous = 0
    THEN [lines |-> <<[step |-> 0, state |-> a]>>, step |-> 0]
    ELSE LET r == print_counterexample(h, h[a].previous)
         IN [lines |-> Append(r.lines, [step |-> r.step + 1, state |-> a]),
             step |-> r.step + 1]

\* The output after a call of print_counterexample on the state at a.
Printed(o, h, a) ==
  [o EXCEPT !.cex = print_counterexample(h, a).lines, !.arg = a,
            !.ret = print_counterexample(h, a).step, !.prints = @ + 1]

\* The outer catch: the message is printed and main returns EXIT_FAILURE.
Failed(o) == [o EXCEPT !.exit = "EXIT_FAILURE"]

CheckInit ==
  /\ SymIdle
  /\ FlatIdle
  /\ ValIdle
  /\ sys \in Systems
  /\ MainEntry
  /\ SmtIdle
  /\ GenIdle
  /\ CopyIdle
  /\ IterIdle
  /\ DeclIdle

\* One iteration of the loop over START_RULES.
StartRule ==
  /\ run.pc = "start"
  /\ LET v == sys.starts[run.si]
         a == Len(objs) + 1
         after == IF run.si = Len(sys.starts) THEN "pop" ELSE "start"
     IN IF v = RuleError
          THEN /\ out' = Failed(out)
               /\ run' = [run EXCEPT !.pc = "done"]
               /\ UNCHANGED <<objs, queue, seen>>
          ELSE IF IsSeen(v)
          THEN /\ run' = [run EXCEPT !.si = @ + 1, !.pc = after,
                                     !.discarded = TRUE]
               /\ UNCHANGED <<objs, queue, seen, out>>
          ELSE /\ objs' = Append(objs, NewState(v, 0))
               /\ seen' = seen_insert(seen, a)
               /\ IF ~PassesAll(v)
                    THEN /\ out' = Failed(Printed(out, objs', a))
                         /\ run' = [run EXCEPT !.pc = "done"]
                         /\ UNCHANGED queue
                    ELSE /\ queue' = push(queue, a)
                         /\ run' = [run EXCEPT !.si = @ + 1, !.pc = after]
                         /\ UNCHANGED out
  /\ UNCHANGED <<sys, chk_frame>>

\* s = q.pop(): the loop ends on an empty queue, else the first rule's
\* iteration over the successors of s begins.
Pop ==
  /\ run.pc = "pop"
  /\ IF queue = <<>>
       THEN /\ out' = [out EXCEPT !.exit = "EXIT_SUCCESS"]
            /\ run' = [run EXCEPT !.pc = "done"]
            /\ UNCHANGED queue
       ELSE /\ queue' = Tail(queue)
            /\ run' = [run EXCEPT !.pc = "rule", !.s = Head(queue), !.ri = 1,
                         !.succ = get_iterable(sys.rules[1], objs[Head(queue)].val)]
            /\ UNCHANGED out
  /\ UNCHANGED <<sys, objs, seen, chk_frame>>

\* A rule's successors are exhausted: on to the next rule, or to the next
\* pop after the last.
NextRule ==
  /\ run.pc = "rule"
  /\ run.succ = <<>>
  /\ IF run.ri < Len(sys.rules)
       THEN run' = [run EXCEPT !.ri = @ + 1,
                      !.succ = get_iterable(sys.rules[run.ri + 1], objs[run.s].val)]
       ELSE run' = [run EXCEPT !.pc = "pop"]
  /\ UNCHANGED <<sys, objs, queue, seen, out, chk_frame>>

\* The rule yields its next successor, or raises: a state seen before is
\* deleted, a new one is inserted into seen and pushed on the queue.
Successor ==
  /\ run.pc = "rule"
  /\ run.succ # <<>>
  /\ LET v == Head(run.succ)
         a == Len(objs) + 1
     IN IF v = RuleError
          THEN /\ run' = [run EXCEPT !.pc = "catch"]
               /\ UNCHANGED <<objs, queue, seen>>
          ELSE IF IsSeen(v)
          THEN /\ run' = [run EXCEPT !.succ = Tail(@), !.discarded = TRUE]
               /\ UNCHANGED <<objs, queue, seen>>
          ELSE /\ objs' = Append(objs, NewState(v, run.s))
               /\ seen' = seen_insert(seen, a)
               /\ queue' = push(queue, a)
               /\ run' = [run EXCEPT !.pc = "check", !.next = a]
  /\ UNCHANGED <<sys, out, chk_frame>>

\* The loop over INVARIANTS on the successor just pushed.
CheckInvariants ==
  /\ run.pc = "check"
  /\ IF PassesAll(objs[run.next].val)
       THEN run' = [run EXCEPT !.pc = "rule", !.succ = Tail(@)]
       ELSE run' = [run EXCEPT !.pc = "catch",
                               !.s = on_violation(run.s, run.next)]
  /\ UNCHANGED <<sys, objs, queue, seen, out, chk_frame>>

\* catch (Error e) around a rule: the counterexample is printed and the
\* error rethrown, which ends main.
Catch ==
  /\ run.pc = "catch"
  /\ out' = Failed(Printed(out, objs, run.s))
  /\ run' = [run EXCEPT !.pc = "done"]
  /\ UNCHANGED <<sys, objs, queue, seen, chk_frame>>

CheckNext ==
  \/ StartRule
  \/ Pop
  \/ NextRule
  \/ Successor
  \/ CheckInvariants
  \/ Catch

CheckSpec == CheckInit /\ [][CheckNext]_vars

\* main is one thread that runs on until it returns.
CheckLiveSpec == CheckInit /\ [][CheckNext]_vars /\ WF_vars(CheckNext)

\* --------------------------------------------------- claims on the checker

\* C14: every state held in the queue passes all invariants, at every
\* point of the run.
C14_QueuePassesInvariants ==
  \A i \in DOMAIN queue : PassesAll(objs[queue[i]].val)

\* The state at a fails an invariant, or some rule raises an error on it.
Offending(a) ==
  \/ ~PassesAll(objs[a].val)
  \/ \E r \in DOMAIN sys.rules :
       \E i \in DOMAIN get_iterable(sys.rules[r], objs[a].val) :
         get_iterable(sys.rules[r], objs[a].val)[i] = RuleError

\* C15: the checker returns EXIT_FAILURE, having printed a counterexample
\* trace that ends at the offending state, whenever a state it encountered
\* violates an invariant or a rule raises an error; it returns
\* EXIT_SUCCESS only with the queue drained and no violation; a failing
\* run prints the counterexample exactly once, and nothing is printed
\* before a failure.
C15_ExitStatus ==
  /\ (run.pc = "done") <=> (out.exit # "running")
  /\ out.exit = "EXIT_FAILURE" =>
       /\ out.prints = 1
       /\ out.cex # <<>>
       /\ Offending(out.cex[Len(out.cex)].state)
  /\ out.exit = "EXIT_SUCCESS" =>
       /\ queue = <<>>
       /\ out.prints = 0
       /\ \A a \in seen : ~Offending(a)
  /\ out.exit = "running" => out.prints = 0
  /\ (run.pc = "done" /\ \E a \in seen : ~PassesAll(objs[a].val)) =>
       out.exit = "EXIT_FAILURE"

\* C16: print_counterexample(s) prints the chain of states that leads to s
\* along the previous back-links, the state with no previous state first
\* and s last, numbered 0..k, and returns k.
C16_TraceInOrder ==
  out.prints > 0 =>
    /\ out.cex # <<>>
    /\ objs[out.cex[1].state].previous = 0
    /\ \A i \in 2..Len(out.cex) :
         objs[out.cex[i].state].previous = out.cex[i - 1].state
    /\ out.cex[Len(out.cex)].state = out.arg
    /\ \A i \in DOMAIN out.cex : out.cex[i].step = i - 1
    /\ out.ret = Len(out.cex) - 1

\* A trace of three states or more was printed.
C16_Witness ==
  /\ out.prints > 0
  /\ Len(out.cex) >= 3

\* C17: the seen set only ever grows: no step of the checker removes a
\* state from it.
C17_SeenOnlyGrows == [][seen \subseteq seen']_vars

\* States were inserted and a state equal to a seen one was discarded.
C17_Witness ==
  /\ Cardinality(seen) >= 2
  /\ run.discarded

\* ======================================================================
\* The SMT translation of expressions (rumur/src/smt/translate.cc)
\* ======================================================================
\* A string is a sequence of characters.

MaxId == 11

UpperCase ==
  <<"A", "B", "C", "D", "E", "F", "G", "H", "I", "J", "K", "L", "M",
    "N", "O", "P", "Q", "R", "S", "T", "U", "V", "W", "X", "Y", "Z">>

LowerCase ==
  <<"a", "b", "c", "d", "e", "f", "g", "h", "i", "j", "k", "l", "m",
    "n", "o", "p", "q", "r", "s", "t", "u", "v", "w", "x", "y", "z">>

tolower(c) ==
  IF \E i \in DOMAIN UpperCase : UpperCase[i] = c
    THEN LowerCase[CHOOSE i \in DOMAIN UpperCase : UpperCase[i] = c]
    ELSE c

lower(str) == [i \in DOMAIN str |-> tolower(str[i])]

Digits == <<"0", "1", "2", "3", "4", "5", "6", "7", "8", "9">>

\* std::to_string of an unsigned number: its decimal digits.
RECURSIVE to_string(_)
to_string(n) ==
  IF n < 10 THEN <<Digits[n + 1]>>
  ELSE to_string(n \div 10) \o <<Digits[(n % 10) + 1]>>

mangle_last_digit(str, id) ==
  IF lower(str) = <<"t", "r", "u", "e">>
       \/ lower(str) = <<"f", "a", "l", "s", "e">>
    THEN lower(str)
  ELSE IF lower(str) = <<"b", "o", "o", "l", "e", "a", "n">>
    THEN <<"B", "o", "o", "l">>
  ELSE <<"s", Digits[(id % 10) + 1]>>

\* smt::mangle; the debugging suffix is the empty string.
mangle(str, id) ==
  IF lower(str) = <<"t", "r", "u", "e">>
       \/ lower(str) = <<"f", "a", "l", "s", "e">>
    THEN lower(str)
  ELSE IF lower(str) = <<"b", "o", "o", "l", "e", "a", "n">>
    THEN <<"B", "o", "o", "l">>
  ELSE <<"s">> \o to_string(id)

\* The names mangle is called with.
MangleNames ==
  {<<"t", "r", "u", "e">>, <<"T", "R", "U", "E">>, <<"T", "r", "u", "e">>,
   <<"f", "a", "l", "s", "e">>, <<"F", "a", "l", "s", "e">>,
   <<"b", "o", "o", "l", "e", "a", "n">>, <<"B", "o", "o", "l", "e", "a", "n">>,
   <<"b", "o", "o", "l">>, <<"x">>, <<"X">>, <<"s", "1">>, <<>>}

\* ---- expressions

ExprIDNode(name, id) ==
  [kind |-> "ExprID", name |-> name, id |-> id, args |-> <<>>]

\* A Number; name holds its value in decimal.
NumberNode(value) ==
  [kind |-> "Number", name |-> value, id |-> 0, args |-> <<>>]

OpNode(kind, args) ==
  [kind |-> kind, name |-> <<>>, id |-> 0, args |-> args]

UnaryKinds == {"Not", "Exists", "Forall", "FunctionCall", "IsUndefined"}

BinaryKinds == {"And", "Neq"}

Atoms ==
  {ExprIDNode(<<"x">>, 3), ExprIDNode(<<"t", "r", "u", "e">>, 1),
   NumberNode(<<"1", "0">>)}

\* The expressions with operators nested at most once, and at most twice.
Exprs1 ==
  Atoms \cup {OpNode(k, <<e>>) : k \in UnaryKinds, e \in Atoms}
        \cup {OpNode(k, <<e, f>>) : k \in BinaryKinds, e \in Atoms, f \in Atoms}

Exprs2 ==
  Atoms \cup {OpNode(k, <<e>>) : k \in UnaryKinds, e \in Exprs1}
        \cup {OpNode(k, <<e, f>>) : k \in BinaryKinds, e \in Exprs1, f \in Exprs1}

\* Those, and their negations.
Exprs3 == Exprs2 \cup {OpNode("Not", <<e>>) : e \in Exprs2}

\* ---- Translator

Text(str) == [text |-> str, sub |-> 0]

Sub(i) == [text |-> <<>>, sub |-> i]

Unsupported_quantifiers_only(e) == e.kind \in {"Exists", "Forall"}

\* The visit methods that throw Unsupported.
Unsupported(e) ==
  e.kind \in {"Exists", "Forall", "FunctionCall", "IsUndefined"}

\* What a visit method sends to the buffer, in order: text, and operands
\* (Sub(i) is the dispatch of operand i).
Translator_visit(e) ==
  CASE e.kind = "ExprID" -> <<Text(mangle(e.name, e.id))>>
    [] e.kind = "Number" -> <<Text(e.name)>>
    [] e.kind = "Not" -> <<Text(<<"(", "n", "o", "t", " ">>), Sub(1), Text(<<")">>)>>
    [] e.kind = "And" ->
         <<Text(<<"(", "a", "n", "d", " ">>), Sub(1), Text(<<" ">>), Sub(2),
           Text(<<")">>)>>
    [] e.kind = "Neq" ->
         <<Text(<<"(", "n", "o", "t", " ", "(", "=", " ">>), Sub(1),
           Text(<<" ">>), Sub(2), Text(<<")", ")">>)>>
    [] OTHER -> <<>>

\* dispatch(e) with the buffer holding buf: the buffer afterwards, and
\* whether Unsupported was thrown.
RECURSIVE Translator_dispatch(_, _)
RECURSIVE Translator_send(_, _, _, _)
Translator_dispatch(buf, e) ==
  IF Unsupported(e) THEN [thrown |-> TRUE, buffer |-> buf]
  ELSE Translator_send(buf, e, Translator_visit(e), 1)

Translator_send(buf, e, items, i) ==
  IF i > Len(items) THEN [thrown |-> FALSE, buffer |-> buf]
  ELSE IF items[i].sub = 0
    THEN Translator_send(buf \o items[i].text, e, items, i + 1)
  ELSE LET r == Translator_dispatch(buf, e.args[items[i].sub])
       IN IF r.thrown THEN r ELSE Translator_send(r.buffer, e, items, i + 1)

\* smt::translate: the buffer, if dispatch returns; nothing if it throws.
translate(e) ==
  IF Translator_dispatch(<<>>, e).thrown
    THEN [status |-> "Unsupported", str |-> <<>>]
    ELSE [status |-> "ok", str |-> Translator_dispatch(<<>>, e).buffer]

SmtInit ==
  /\ SymIdle
  /\ FlatIdle
  /\ ValIdle
  /\ ChkIdle
  /\ SmtIdle
  /\ GenIdle
  /\ CopyIdle
  /\ IterIdle
  /\ DeclIdle

Translate ==
  /\ smt.call = "none"
  /\ \E e \in Exprs3 :
       smt' = [call |-> "translate", expr |-> e, name |-> <<>>, id |-> 0,
               status |-> translate(e).status, str |-> translate(e).str]
  /\ UNCHANGED smt_frame

Mangle ==
  /\ smt.call = "none"
  /\ \E name \in MangleNames, id \in 0..MaxId :
       smt' = [call |-> "mangle", expr |-> NoExpr, name |-> name, id |-> id,
               status |-> "ok", str |-> mangle(name, id)]
  /\ UNCHANGED smt_frame

SmtNext ==
  \/ Translate
  \/ Mangle

SmtSpec == SmtInit /\ [][SmtNext]_vars

\* -------------------------------------------- claims on the SMT translation

\* The expression contains, at any depth, an operator of one of the kinds.
RECURSIVE Contains(_, _)
Contains(e, kinds) ==
  \/ e.kind \in kinds
  \/ \E i \in DOMAIN e.args : Contains(e.args[i], kinds)

\* The number of "(" less the number of ")" in the first n characters.
RECURSIVE Depth(_, _)
Depth(str, n) ==
  IF n = 0 THEN 0
  ELSE Depth(str, n - 1) + (IF str[n] = "(" THEN 1 ELSE 0)
                         - (IF str[n] = ")" THEN 1 ELSE 0)

\* The string is one complete s-expression: one atom, or one list whose
\* opening parenthesis is closed by its last character.
Complete(str) ==
  /\ str # <<>>
  /\ IF str[1] = "("
       THEN /\ Depth(str, Len(str)) = 0
            /\ \A n \in 1..(Len(str) - 1) : Depth(str, n) > 0
       ELSE \A n \in DOMAIN str : str[n] \notin {"(", ")", " "}

\* C18 as stated: translate raises Unsupported, returning no string, for
\* every expression that contains an exists, a forall or a function call
\* at any depth, and returns a complete s-expression for every other one.
C18_UnsupportedExactly ==
  smt.call = "translate" =>
    IF Contains(smt.expr, {"Exists", "Forall", "FunctionCall"})
      THEN smt.status = "Unsupported" /\ smt.str = <<>>
      ELSE smt.status = "ok" /\ Complete(smt.str)

\* C18, amended: the same with isundefined among the unsupported operators.
C18_UnsupportedWithIsUndefined ==
  smt.call = "translate" =>
    IF Contains(smt.expr, {"Exists", "Forall", "FunctionCall", "IsUndefined"})
      THEN smt.status = "Unsupported" /\ smt.str = <<>>
      ELSE smt.status = "ok" /\ Complete(smt.str)

\* translate raised Unsupported on a function call met two operators deep,
\* as a second operand, after text had been sent to the buffer.
C18_Witness ==
  /\ smt.call = "translate"
  /\ smt.status = "Unsupported"
  /\ smt.expr.kind = "Not"
  /\ smt.expr.args[1].kind = "And"
  /\ ~Contains(smt.expr.args[1].args[1],
               {"Exists", "Forall", "FunctionCall", "IsUndefined"})
  /\ smt.expr.args[1].args[2].kind = "FunctionCall"

ReservedWords ==
  {<<"t", "r", "u", "e">>, <<"f", "a", "l", "s", "e">>,
   <<"b", "o", "o", "l", "e", "a", "n">>}

\* C19 as stated: mangle(name, id) is "s" followed by the decimal id for
\* every name but true and false, which it returns as they are, and
\* boolean, for which it returns Bool; so two names that are not reserved
\* words get the same symbol only with the same id.
C19_MangleByUniqueId ==
  smt.call = "mangle" =>
    /\ smt.name \notin ReservedWords =>
         /\ smt.str = <<"s">> \o to_string(smt.id)
         /\ \A name \in MangleNames \ ReservedWords, id \in 0..MaxId :
              mangle(name, id) = smt.str => id = smt.id
    /\ smt.name \in {<<"t", "r", "u", "e">>, <<"f", "a", "l", "s", "e">>} =>
         smt.str = smt.name
    /\ smt.name = <<"b", "o", "o", "l", "e", "a", "n">> =>
         smt.str = <<"B", "o", "o", "l">>

\* C19, amended: the same with the reserved words recognised in any
\* letter case, true and false returned in lower case.
C19_MangleCaseInsensitive ==
  smt.call = "mangle" =>
    /\ lower(smt.name) \notin ReservedWords =>
         /\ smt.str = <<"s">> \o to_string(smt.id)
         /\ \A name \in MangleNames, id \in 0..MaxId :
              (lower(name) \notin ReservedWords /\ mangle(name, id) = smt.str)
                => id = smt.id
    /\ lower(smt.name) \in {<<"t", "r", "u", "e">>, <<"f", "a", "l", "s", "e">>} =>
         smt.str = lower(smt.name)
    /\ lower(smt.name) = <<"b", "o", "o", "l", "e", "a", "n">> =>
         smt.str = <<"B", "o", "o", "l">>

\* mangle was called with an ordinary name and an id of two digits.
C19_Witness ==
  /\ smt.call = "mangle"
  /\ lower(smt.name) \notin ReservedWords
  /\ smt.id >= 10
  /\ Len(smt.str) = 3

\* ======================================================================
\* Quantifier loops of the C generator (murphi2c/src/generate_c.cc)
\* ======================================================================

MaxBound == 2

\* The expressions a quantifier is written with: constant or not, of a
\* value from -1 to MaxBound.
BoundExprs == {Operand("", c, v) : c \in BOOLEAN, v \in -1..MaxBound}

\* The text "1" the generator writes for an absent step.
One == Operand("1", TRUE, 1)

\* Quantifier::step: absent, or a constant.
Steps == {<<>>, <<Operand("", TRUE, 1)>>, <<Operand("", TRUE, -1)>>,
          <<Operand("", TRUE, 2)>>}

Member_first(members, i) == Operand(members[1], TRUE, 0)

\* The i-th member of an enum, a C enumeration constant.
Member(members, i) == Operand(members[i], TRUE, i - 1)

EnumTypes ==
  {[variant |-> "Enum", members |-> m] : m \in {<<>>, <<"A">>, <<"A", "B">>}}

RangeTypes ==
  {[variant |-> "Range", min |-> lo, max |-> hi] :
     lo \in {Operand("", TRUE, 0), Operand("", TRUE, 1)},
     hi \in {Operand("", TRUE, v) : v \in 0..MaxBound}}

ScalarsetTypes ==
  {[variant |-> "Scalarset", bound |-> Operand("", TRUE, v)] : v \in 1..MaxBound}

StructuralTypes == EnumTypes \cup RangeTypes \cup ScalarsetTypes

\* Quantifier::type: a structural type, or the name of one.
QuantifierTypes ==
  StructuralTypes \cup
    {[variant |-> "TypeExprID", name |-> "t", referent |-> t] :
       t \in StructuralTypes}

\* A quantifier over from..to (type is nullptr) or over a type.
Quantifiers ==
  {[name |-> "i", type |-> <<>>, from |-> f, to |-> t, step |-> st] :
     f \in BoundExprs, t \in BoundExprs, st \in Steps}
  \cup
  {[name |-> "i", type |-> <<ty>>, from |-> NoOperand, to |-> NoOperand,
    step |-> <<>>] : ty \in QuantifierTypes}

down_count_unfolded(n) == n.to.value < n.from.value

\* bool down_count
down_count(n) ==
  /\ n.from.constant
  /\ n.to.constant
  /\ n.to.value < n.from.value

\* for (<ctype> <name> = <init>; <name> <test> <bound>; <name> <update> <step>)
Loop(ctype, name, init, test, bound, update, step) ==
  [ctype |-> ctype, name |-> name, init |-> init, test |-> test,
   bound |-> bound, update |-> update, step |-> step]

\* CGenerator::visit_quantifier: the for loop header it writes.
visit_quantifier(n) ==
  IF n.type = <<>>
    THEN Loop("int64_t", n.name, n.from, IF down_count(n) THEN ">=" ELSE "<=",
              n.to, "+=", IF n.step = <<>> THEN One ELSE n.step[1])
  ELSE LET resolved == resolve(n.type[1])
       IN CASE resolved.variant = "Enum" ->
                 IF resolved.members = <<>>
                   THEN Loop("int", n.name, Operand("0", TRUE, 0), "<",
                             Operand("0", TRUE, 0), "++", One)
                   ELSE Loop("__typeof__", n.name, Member(resolved.members, 1),
                             "<=", Member(resolved.members, Len(resolved.members)),
                             "++", One)
            [] resolved.variant = "Range" ->
                 Loop("int64_t", n.name, resolved.min, "<=", resolved.max,
                      "++", One)
            [] resolved.variant = "Scalarset" ->
                 Loop("int64_t", n.name, Operand("0", TRUE, 0), "<=",
                      resolved.bound, "++", One)

GenInit ==
  /\ SymIdle
  /\ FlatIdle
  /\ ValIdle
  /\ ChkIdle
  /\ SmtIdle
  /\ GenIdle
  /\ CopyIdle
  /\ IterIdle
  /\ DeclIdle

\* The generator is dispatched on a quantifier.
EmitQuantifier ==
  /\ ~gen.called
  /\ gen.unit = NoUnit
  /\ \E n \in Quantifiers :
       gen' = [gen EXCEPT !.called = TRUE, !.n = n,
                          !.loop = visit_quantifier(n)]
  /\ UNCHANGED gen_frame

\* ---- functions, rules, start states and properties in the C output

\* A line of the output: a preprocessor directive on a macro, a local
\* variable, a statement, or the opening or closing line of a function.
Line(op, name) == [op |-> op, name |-> name]

SeqsUpTo2(S) ==
  {<<>>} \cup {<<a>> : a \in S} \cup {<<a, b>> : a \in S, b \in S}

AliasNames == {"a", "b"}

\* Alias declarations, as the aliases around a rule and among local
\* declarations.
AliasDecls == {[kind |-> "AliasDecl", name |-> a] : a \in AliasNames}

VarDecls == {[kind |-> "VarDecl", name |-> "x"]}

Parameters == [name : {"p", "q"}, readonly : BOOLEAN]

Units ==
  {[kind |-> "Function", parameters |-> ps, aliases |-> <<>>, decls |-> ds] :
     ps \in SeqsUpTo2(Parameters), ds \in SeqsUpTo2(AliasDecls \cup VarDecls)}
  \cup
  {[kind |-> k, parameters |-> <<>>, aliases |-> as, decls |-> ds] :
     k \in {"SimpleRule", "StartState"}, as \in SeqsUpTo2(AliasDecls),
     ds \in SeqsUpTo2(AliasDecls \cup VarDecls)}
  \cup
  {[kind |-> "PropertyRule", parameters |-> <<>>, aliases |-> as,
    decls |-> <<>>] : as \in SeqsUpTo2(AliasDecls)}

\* A declaration written out: a macro for an alias, a local otherwise.
visit_decl(d) ==
  IF d.kind = "AliasDecl" THEN Line("#define", d.name)
  ELSE Line("decl", d.name)

Emit(ds) == [i \in DOMAIN ds |-> visit_decl(ds[i])]

Define(ds) == [i \in DOMAIN ds |-> Line("#define", ds[i].name)]

Undef(ds) == [i \in DOMAIN ds |-> Line("#undef", ds[i].name)]

IsAliasDecl(d) == d.kind = "AliasDecl"

IsWritable(p) == ~p.readonly

\* The #undef lines at the end of a rule or start state.
undef_aliases(n) ==
  Undef(SelectSeq(n.decls, IsAliasDecl)) \o Undef(n.aliases)

visit_function(n) ==
  <<Line("{", "function")>>
  \o Define(SelectSeq(n.parameters, IsWritable))
  \o Emit(n.decls)
  \o <<Line("stmt", "")>>
  \o Undef(SelectSeq(n.parameters, IsWritable))
  \o <<Line("}", "function")>>

visit_propertyrule(n) ==
  <<Line("{", "property")>>
  \o Emit(n.aliases)
  \o <<Line("return", "")>>
  \o Undef(n.aliases)
  \o <<Line("}", "property")>>

visit_simplerule(n) ==
  <<Line("{", "guard_")>>
  \o Emit(n.aliases)
  \o <<Line("return", "")>>
  \o Undef(n.aliases)
  \o <<Line("}", "guard_")>>
  \o <<Line("{", "rule_")>>
  \o Emit(n.aliases)
  \o Emit(n.decls)
  \o <<Line("stmt", "")>>
  \o undef_aliases(n)
  \o <<Line("}", "rule_")>>

visit_startstate(n) ==
  <<Line("{", "startstate_")>>
  \o Emit(n.aliases)
  \o Emit(n.decls)
  \o <<Line("stmt", "")>>
  \o undef_aliases(n)
  \o <<Line("}", "startstate_")>>

dispatch(n) ==
  CASE n.kind = "Function" -> visit_function(n)
    [] n.kind = "PropertyRule" -> visit_propertyrule(n)
    [] n.kind = "SimpleRule" -> visit_simplerule(n)
    [] n.kind = "StartState" -> visit_startstate(n)

\* The generator is dispatched on a function, rule, start state or
\* property.
EmitUnit ==
  /\ ~gen.called
  /\ gen.unit = NoUnit
  /\ \E n \in Units : gen' = [gen EXCEPT !.unit = n, !.text = dispatch(n)]
  /\ UNCHANGED gen_frame

GenNext ==
  \/ EmitQuantifier
  \/ EmitUnit

GenSpec == GenInit /\ [][GenNext]_vars

\* --------------------------------------------- claims on quantifier loops

MaxIter == 6

\* The loop's test, name <test> bound, on the value i of the variable.
Holds(test, i, b) ==
  CASE test = "<=" -> i <= b
    [] test = ">=" -> i >= b
    [] test = "<" -> i < b

\* The values the body is run with, the variable being i before the next
\* test, and whether the test has failed within fuel iterations.
RECURSIVE loop_values(_, _, _)
loop_values(l, i, fuel) ==
  IF ~Holds(l.test, i, l.bound.value) THEN [vals |-> <<>>, done |-> TRUE]
  ELSE IF fuel = 0 THEN [vals |-> <<>>, done |-> FALSE]
  ELSE [vals |-> <<i>> \o loop_values(l, i + l.step.value, fuel - 1).vals,
        done |-> loop_values(l, i + l.step.value, fuel - 1).done]

\* The run of an emitted loop, followed for MaxIter iterations.
Execute(l) == loop_values(l, l.init.value, MaxIter)

\* The numbers from a up to b, in increasing order.
Upto(a, b) == [k \in 1..(IF b >= a THEN b - a + 1 ELSE 0) |-> a + k - 1]

\* The numbers from a down to b, in decreasing order.
Downto(a, b) == [k \in 1..(IF a >= b THEN a - b + 1 ELSE 0) |-> a - k + 1]

\* The type a typed quantifier ranges over.
QuantifiedType == resolve(gen.n.type[1])

\* C21: the loop emitted for a quantifier over a type ends, and runs its
\* body in increasing order with step one over: the members of an enum
\* from the first to the last (not at all for an empty enum), min to max
\* inclusive for a range, 0 to bound inclusive for a scalarset.
C21_TypedQuantifierRange ==
  (gen.called /\ gen.n.type # <<>>) =>
    /\ Execute(gen.loop).done
    /\ QuantifiedType.variant = "Enum" =>
         Execute(gen.loop).vals = Upto(0, Len(QuantifiedType.members) - 1)
    /\ (QuantifiedType.variant = "Enum" /\ QuantifiedType.members # <<>>) =>
         /\ gen.loop.init.text = QuantifiedType.members[1]
         /\ gen.loop.bound.text =
              QuantifiedType.members[Len(QuantifiedType.members)]
    /\ QuantifiedType.variant = "Range" =>
         Execute(gen.loop).vals =
           Upto(QuantifiedType.min.value, QuantifiedType.max.value)
    /\ QuantifiedType.variant = "Scalarset" =>
         Execute(gen.loop).vals = Upto(0, QuantifiedType.bound.value)

\* A loop over a named enum of two members was emitted.
C21_Witness ==
  /\ gen.called
  /\ gen.n.type # <<>>
  /\ gen.n.type[1].variant = "TypeExprID"
  /\ QuantifiedType.variant = "Enum"
  /\ Len(Execute(gen.loop).vals) = 2

\* C28: the loop emitted for a from/to quantifier with constant bounds,
\* no step given or a step of one, ends and runs its body with exactly the
\* values between from and to: from up to to, and from down to to when to
\* is less than from.
C28_FromToLoopTerminates ==
  (/\ gen.called
   /\ gen.n.type = <<>>
   /\ gen.n.from.constant
   /\ gen.n.to.constant
   /\ gen.n.step = <<>> \/ gen.n.step[1].value = 1) =>
    /\ Execute(gen.loop).done
    /\ Execute(gen.loop).vals =
         IF gen.n.to.value < gen.n.from.value
           THEN Downto(gen.n.from.value, gen.n.to.value)
           ELSE Upto(gen.n.from.value, gen.n.to.value)

\* C29: the loop emitted for a quantifier over a scalarset of bound N runs
\* its body with exactly N distinct values.
C29_ScalarsetCardinality ==
  (gen.called /\ gen.n.type # <<>> /\ QuantifiedType.variant = "Scalarset") =>
    /\ Execute(gen.loop).done
    /\ Len(Execute(gen.loop).vals) = QuantifiedType.bound.value
    /\ \A j, k \in DOMAIN Execute(gen.loop).vals :
         Execute(gen.loop).vals[j] = Execute(gen.loop).vals[k] => j = k

\* ------------------------------------------- more claims on the checker

\* C26: every state in the queue is in seen, no two states kept are equal,
\* and a state is pushed only when no state equal to it was in seen, so
\* that each distinct state is pushed at most once and a duplicate is
\* never enqueued.
C26_QueueWithinSeen ==
  /\ [](/\ \A i \in DOMAIN queue : queue[i] \in seen
        /\ \A a, b \in seen : objs[a].val = objs[b].val => a = b
        /\ \A i, j \in DOMAIN queue : queue[i] = queue[j] => i = j)
  /\ [][Len(queue') > Len(queue) =>
          /\ queue'[Len(queue')] \notin seen
          /\ queue'[Len(queue')] \in seen'
          /\ ~IsSeen(objs'[queue'[Len(queue')]].val)]_vars

\* A state equal to a seen one was discarded while states were queued.
C26_Witness ==
  /\ run.discarded
  /\ Len(queue) >= 2
  /\ Cardinality(seen) >= 3

\* The values a rule yields on v, its raising an error left out.
Yields(v) ==
  (UNION {{get_iterable(sys.rules[r], v)[i] :
             i \in DOMAIN get_iterable(sys.rules[r], v)} :
          r \in DOMAIN sys.rules})
    \ {RuleError}

RECURSIVE Closure(_)
Closure(S) ==
  IF (UNION {Yields(v) : v \in S}) \subseteq S THEN S
  ELSE Closure(S \cup UNION {Yields(v) : v \in S})

\* The states reachable from the start states by the rules.
Reachable == Closure({sys.starts[i] : i \in DOMAIN sys.starts} \ {RuleError})

\* No start state raises, and no reachable state fails an invariant or has
\* a rule raise on it.
Clean ==
  /\ \A i \in DOMAIN sys.starts : sys.starts[i] # RuleError
  /\ \A v \in Reachable :
       /\ PassesAll(v)
       /\ \A r \in DOMAIN sys.rules :
            \A i \in DOMAIN get_iterable(sys.rules[r], v) :
              get_iterable(sys.rules[r], v)[i] # RuleError

RECURSIVE Macros(_, _)
Macros(text, k) ==
  IF k = 0 THEN {}
  ELSE CASE text[k].op = "#define" -> Macros(text, k - 1) \cup {text[k].name}
         [] text[k].op = "#undef" -> Macros(text, k - 1) \ {text[k].name}
         [] OTHER -> Macros(text, k - 1)

\* The closing line of the function that line i is in.
Closing(text, i) ==
  CHOOSE c \in i..Len(text) :
    /\ text[c].op = "}"
    /\ \A d \in i..(c - 1) : text[d].op # "}"

\* C22: every macro #define'd in the body of an emitted function (an outer
\* alias, a local alias declaration, a writable parameter) has a matching
\* #undef after the body's statements and before the closing brace, so
\* that after every emitted function the macros defined are those defined
\* before it.
C22_MacrosScoped ==
  gen.unit # NoUnit =>
    /\ \A i \in DOMAIN gen.text :
         gen.text[i].op = "#define" =>
           \E j \in (i + 1)..(Closing(gen.text, i) - 1) :
             /\ gen.text[j] = Line("#undef", gen.text[i].name)
             /\ \A s \in i..Closing(gen.text, i) :
                  gen.text[s].op \in {"stmt", "return"} => s < j
    /\ \A c \in DOMAIN gen.text :
         gen.text[c].op = "}" => Macros(gen.text, c) = {}

\* ------------------------------------------------- copies of AST nodes

\* A child of a node (a declaration, statement, expression, alias or inner
\* rule): what it says and where it was written.
Cell(val, loc) == [val |-> val, loc |-> loc]

\* The members of a node that point to children, in a fixed order.
PtrOrder ==
  <<"parameters", "return_type", "decls", "body", "aliases", "guard",
    "rules", "decl", "property">>

PtrFields == {PtrOrder[k] : k \in DOMAIN PtrOrder}

RuleTypes ==
  {"SimpleRule", "StartState", "PropertyRule", "Ruleset", "AliasRule"}

\* A node with no children.
Blank(type) ==
  [type |-> type, name |-> "", loc |-> 1, unique_id |-> 0,
   by_reference |-> FALSE, quantifiers |-> <<>>, parameters |-> <<>>,
   return_type |-> <<>>, decls |-> <<>>, body |-> <<>>, aliases |-> <<>>,
   guard |-> <<>>, rules |-> <<>>, decl |-> <<>>, property |-> <<>>]

\* The lists of children a node is written with, and what an optional
\* child (a guard, a return type) is written as.
ChildLists == {<<>>, <<"x">>, <<"x", "y">>}

OptionalChild == {<<>>, <<"g">>, <<"h">>}

QuantifierLists == {<<>>, <<"i">>}

\* The nodes as written, their children by what they say.
Written ==
  {[Blank("Function") EXCEPT !.name = "f", !.parameters = ps,
      !.return_type = rt, !.decls = ds, !.body = bs] :
     ps \in ChildLists, rt \in OptionalChild, ds \in ChildLists,
     bs \in ChildLists}
  \cup
  {[Blank("Parameter") EXCEPT !.decl = <<d>>, !.by_reference = r] :
     d \in {"x", "y"}, r \in BOOLEAN}
  \cup
  {[Blank("SimpleRule") EXCEPT !.name = "r", !.quantifiers = qs,
      !.aliases = as, !.guard = g, !.decls = ds, !.body = bs] :
     qs \in QuantifierLists, as \in ChildLists, g \in OptionalChild,
     ds \in ChildLists, bs \in ChildLists}
  \cup
  {[Blank("StartState") EXCEPT !.name = "r", !.quantifiers = qs,
      !.aliases = as, !.decls = ds, !.body = bs] :
     qs \in QuantifierLists, as \in ChildLists, ds \in ChildLists,
     bs \in ChildLists}
  \cup
  {[Blank("PropertyRule") EXCEPT !.name = "r", !.quantifiers = qs,
      !.aliases = as, !.property = <<pr>>] :
     qs \in QuantifierLists, as \in ChildLists, pr \in {"g", "h"}}
  \cup
  {[Blank(t) EXCEPT !.quantifiers = qs, !.aliases = as, !.rules = rs] :
     t \in {"Ruleset", "AliasRule"}, qs \in QuantifierLists,
     as \in ChildLists, rs \in ChildLists}

\* The children of the first k pointer members of v, in order.
RECURSIVE ChildrenOf(_, _)
ChildrenOf(v, k) ==
  IF k = 0 THEN <<>> ELSE ChildrenOf(v, k - 1) \o v[PtrOrder[k]]

MemberIndex(f) == CHOOSE k \in DOMAIN PtrOrder : PtrOrder[k] = f

\* The node v constructed: its children are objects of their own, after
\* the objects h that exist, and the node points to them.
Alloc(h, v) ==
  [h    |-> h \o [i \in 1..Len(ChildrenOf(v, Len(PtrOrder))) |->
                    Cell(ChildrenOf(v, Len(PtrOrder))[i], Len(h) + i)],
   node |-> [f \in DOMAIN v |->
               IF f \in PtrFields
               THEN [i \in 1..Len(v[f]) |->
                       Len(h) + Len(ChildrenOf(v, MemberIndex(f) - 1)) + i]
               ELSE v[f]]]

\* p->clone() for each pointer of a list, nullptr staying nullptr.
clone_each(h, ps) == clone_aliases(h, ps, Len(ps))

\* The copy of a list of Ptr<T>: Ptr's copy constructor clones what it
\* points to.
Ptr_copy(h, ps) == clone_aliases(h, ps, Len(ps))

\* Property's copy constructor: the expression is cloned.
Property_copy(h, ps) == clone_aliases(h, ps, Len(ps))

\* Parameter::Parameter(const Parameter &other)
Parameter_copy(h, other) ==
  LET d == clone_each(h, other.decl)
  IN  [h |-> d.h, node |-> [other EXCEPT !.decl = d.out]]

\* Function::Function(const Function &other)
Function_copy(h, other) ==
  LET rt == clone_each(h, other.return_type)
      ps == clone_each(rt.h, other.parameters)
      ds == clone_each(ps.h, other.decls)
      bs == clone_each(ds.h, other.body)
  IN  [h |-> bs.h,
       node |-> [other EXCEPT !.return_type = rt.out, !.parameters = ps.out,
                              !.decls = ds.out, !.body = bs.out]]

\* Rule::Rule(const Rule &other): the location, unique id, name and
\* quantifiers copied, each alias cloned; the members of the derived class
\* are still to be set.
Rule_copy(h, other) ==
  LET as == clone_each(h, other.aliases)
  IN  [h |-> as.h,
       node |-> [Blank(other.type) EXCEPT
                   !.loc = other.loc, !.unique_id = other.unique_id,
                   !.name = other.name,
                   !.quantifiers =
                     [k \in DOMAIN other.quantifiers |->
                        Quantifier_copy(other.quantifiers[k])],
                   !.aliases = as.out]]

SimpleRule_copy_shared_guard(h, other) ==
  LET r == Rule_copy(h, other)
      b == Ptr_copy(r.h, other.body)
      d == clone_each(b.h, other.decls)
  IN  [h |-> d.h,
       node |-> [r.node EXCEPT !.guard = other.guard, !.body = b.out,
                               !.decls = d.out]]

\* SimpleRule::SimpleRule(const SimpleRule &other)
SimpleRule_copy(h, other) ==
  LET r == Rule_copy(h, other)
      g == clone_each(r.h, other.guard)
      b == Ptr_copy(g.h, other.body)
      d == clone_each(b.h, other.decls)
  IN  [h |-> d.h,
       node |-> [r.node EXCEPT !.guard = g.out, !.body = b.out,
                               !.decls = d.out]]

\* StartState::StartState(const StartState &other)
StartState_copy(h, other) ==
  LET r == Rule_copy(h, other)
      b == Ptr_copy(r.h, other.body)
      d == clone_each(b.h, other.decls)
  IN  [h |-> d.h, node |-> [r.node EXCEPT !.body = b.out, !.decls = d.out]]

\* PropertyRule::PropertyRule(const PropertyRule &other)
PropertyRule_copy(h, other) ==
  LET r == Rule_copy(h, other)
      pr == Property_copy(r.h, other.property)
  IN  [h |-> pr.h, node |-> [r.node EXCEPT !.property = pr.out]]

\* Ruleset::Ruleset(const Ruleset &other) and
\* AliasRule::AliasRule(const AliasRule &other)
Ruleset_copy(h, other) ==
  LET r == Rule_copy(h, other)
      rs == Ptr_copy(r.h, other.rules)
  IN  [h |-> rs.h, node |-> [r.node EXCEPT !.rules = rs.out]]

\* clone(): new T(*this), by the copy constructor of the node's class.
Node_clone(h, n) ==
  CASE n.type = "Function" -> Function_copy(h, n)
    [] n.type = "Parameter" -> Parameter_copy(h, n)
    [] n.type = "SimpleRule" -> SimpleRule_copy(h, n)
    [] n.type = "StartState" -> StartState_copy(h, n)
    [] n.type = "PropertyRule" -> PropertyRule_copy(h, n)
    [] n.type \in {"Ruleset", "AliasRule"} -> Ruleset_copy(h, n)

\* The members that swap exchanges, by class.
swapped(type) ==
  {"loc", "unique_id", "name"} \cup
  CASE type = "SimpleRule" -> {"decls", "body", "quantifiers", "aliases"}
    [] type = "StartState" -> {"decls", "body", "quantifiers", "aliases"}
    [] type = "PropertyRule" -> {"property", "quantifiers", "aliases"}
    [] type \in {"Ruleset", "AliasRule"} ->
         {"quantifiers", "aliases", "rules"}

\* x = b: operator=(T other) takes a copy of b and swaps it with *this.
assign(h, x, b) ==
  LET other == Node_clone(h, b)
  IN  [h |-> other.h,
       node |-> [f \in DOMAIN x |->
                   IF f \in swapped(x.type) THEN other.node[f] ELSE x[f]]]

\* vector_eq, and the comparison of two optional children: as many
\* children, equal one by one (a child's equality is on what it says).
vector_eq(h, xs, ys) ==
  /\ Len(xs) = Len(ys)
  /\ \A i \in DOMAIN xs : h[xs[i]].val = h[ys[i]].val

\* operator== of each class.
Node_eq(h, x, o) ==
  /\ x.type = o.type
  /\ CASE x.type = "Function" ->
            /\ x.name = o.name
            /\ vector_eq(h, x.parameters, o.parameters)
            /\ vector_eq(h, x.return_type, o.return_type)
            /\ vector_eq(h, x.decls, o.decls)
            /\ vector_eq(h, x.body, o.body)
       [] x.type = "Parameter" ->
            /\ vector_eq(h, x.decl, o.decl)
            /\ x.by_reference = o.by_reference
       [] x.type = "SimpleRule" ->
            /\ x.name = o.name
            /\ x.quantifiers = o.quantifiers
            /\ vector_eq(h, x.aliases, o.aliases)
            /\ vector_eq(h, x.guard, o.guard)
            /\ vector_eq(h, x.decls, o.decls)
            /\ vector_eq(h, x.body, o.body)
       [] x.type = "StartState" ->
            /\ x.name = o.name
            /\ x.quantifiers = o.quantifiers
            /\ vector_eq(h, x.aliases, o.aliases)
            /\ vector_eq(h, x.decls, o.decls)
            /\ vector_eq(h, x.body, o.body)
       [] x.type = "PropertyRule" ->
            /\ x.name = o.name
            /\ x.quantifiers = o.quantifiers
            /\ vector_eq(h, x.aliases, o.aliases)
            /\ vector_eq(h, x.property, o.property)
       [] x.type \in {"Ruleset", "AliasRule"} ->
            /\ x.name = o.name
            /\ x.quantifiers = o.quantifiers
            /\ vector_eq(h, x.aliases, o.aliases)
            /\ vector_eq(h, x.rules, o.rules)

\* All of a node: its own members and the children it points to.
Deep(h, x) ==
  [f \in DOMAIN x |->
     IF f \in PtrFields THEN [i \in DOMAIN x[f] |-> h[x[f][i]]] ELSE x[f]]

\* The objects a node points to.
Pointees(x) == UNION {{x[f][i] : i \in DOMAIN x[f]} : f \in PtrFields}

CopyInit ==
  /\ SymIdle
  /\ FlatIdle
  /\ ValIdle
  /\ ChkIdle
  /\ SmtIdle
  /\ GenIdle
  /\ CopyIdle
  /\ IterIdle
  /\ DeclIdle

\* A node is written and cloned.
Clone ==
  /\ cp.op = "none"
  /\ \E v \in Written :
       LET a == Alloc(<<>>, v)
           c == Node_clone(a.h, a.node)
       IN  cp' = [op |-> "clone", h |-> c.h, n |-> <<a.node>>,
                  c |-> <<c.node>>, old |-> <<Deep(a.h, a.node)>>]
  /\ UNCHANGED copy_frame

\* A child of the clone is written to through the clone's pointer.
Mutate ==
  /\ cp.op = "clone"
  /\ \E a \in Pointees(cp.c[1]) :
       cp' = [cp EXCEPT !.op = "mutate", !.h[a].val = "z"]
  /\ UNCHANGED copy_frame

\* A child of the clone is replaced by a new node.
Replace ==
  /\ cp.op = "clone"
  /\ \E f \in PtrFields :
       \E i \in DOMAIN cp.c[1][f] :
         cp' = [cp EXCEPT !.op = "replace",
                          !.h = Append(@, Cell("z", Len(@) + 1)),
                          !.c[1][f][i] = Len(cp.h) + 1]
  /\ UNCHANGED copy_frame

\* Two rules of one class are written and the second is assigned to the
\* first.
Assign ==
  /\ cp.op = "none"
  /\ \E x \in Written, b \in Written :
       /\ x.type \in RuleTypes
       /\ x.type = b.type
       /\ LET ax == Alloc(<<>>, x)
              ab == Alloc(ax.h, b)
              r  == assign(ab.h, ax.node, ab.node)
          IN  cp' = [op |-> "assign", h |-> r.h, n |-> <<ab.node>>,
                     c |-> <<r.node>>, old |-> <<Deep(ab.h, ab.node)>>]
  /\ UNCHANGED copy_frame

CopyNext ==
  \/ Clone
  \/ Mutate
  \/ Replace
  \/ Assign

CopySpec == CopyInit /\ [][CopyNext]_vars

\* ------------------------------------------------------ claims on copies

\* C23: the clone of a Function, a Parameter or a rule is equal to the
\* node, points to no child of it, and whatever child of the clone is
\* written to or replaced the node stays as it was.
C23_CloneEqualAndIndependent ==
  cp.op \in {"clone", "mutate", "replace"} =>
    /\ cp.op = "clone" =>
         /\ Node_eq(cp.h, cp.c[1], cp.n[1])
         /\ Node_eq(cp.h, cp.n[1], cp.c[1])
         /\ Pointees(cp.c[1]) \cap Pointees(cp.n[1]) = {}
    /\ Deep(cp.h, cp.n[1]) = cp.old[1]

\* The guard of a simple rule's clone was written to, and the clone is no
\* longer equal to the rule.
C23_Witness ==
  /\ cp.op = "mutate"
  /\ cp.n[1].type = "SimpleRule"
  /\ cp.c[1].guard # <<>>
  /\ cp.h[cp.c[1].guard[1]].val = "z"
  /\ ~Node_eq(cp.h, cp.c[1], cp.n[1])

\* C30: after a = b for two rules of one class, a == b, and b is as it
\* was.
C30_AssignMakesEqual ==
  cp.op = "assign" =>
    /\ Node_eq(cp.h, cp.c[1], cp.n[1])
    /\ Deep(cp.h, cp.n[1]) = cp.old[1]

\* ------------------------------------------------- iteration over a tree

MaxNodes == 5

Reverse(s) == [i \in 1..Len(s) |-> s[Len(s) + 1 - i]]

\* The numbers of a set, the least first.
RECURSIVE Ascending(_)
Ascending(S) ==
  IF S = {} THEN <<>>
  ELSE LET m == CHOOSE x \in S : \A y \in S : x <= y
       IN  <<m>> \o Ascending(S \ {m})

\* The trees of up to MaxNodes nodes: tree[a] is the list of the children
\* of the node at a, left to right; the root is at 1.
Trees ==
  UNION {{[a \in 1..n |-> Ascending({c \in 2..n : parent[c] = a})] :
            parent \in {f \in [2..n -> 1..n] : \A c \in 2..n : f[c] < c}} :
         n \in 1..MaxNodes}

Pending(node, expanded) == [node |-> node, expanded |-> expanded]

\* PreorderIterator(Node &base): the base is pending.
PreorderIterator(tree) == <<1>>

Preorder_increment_unreversed(tree, remaining) ==
  SubSeq(remaining, 1, Len(remaining) - 1) \o tree[remaining[Len(remaining)]]

\* PreorderIterator::operator++: the head is replaced by its children, the
\* leftmost child becoming the head.
Preorder_increment(tree, remaining) ==
  SubSeq(remaining, 1, Len(remaining) - 1)
    \o Reverse(tree[remaining[Len(remaining)]])

\* PostorderIterator::expand_head: as long as the head has not been
\* expanded, it is put back with its flag set and its children are put
\* over it, the leftmost child becoming the head.
RECURSIVE expand_head(_, _)
expand_head(tree, remaining) ==
  IF remaining = <<>> \/ remaining[Len(remaining)].expanded THEN remaining
  ELSE expand_head(tree,
         SubSeq(remaining, 1, Len(remaining) - 1)
           \o <<Pending(remaining[Len(remaining)].node, TRUE)>>
           \o Reverse([i \in DOMAIN tree[remaining[Len(remaining)].node] |->
                         Pending(tree[remaining[Len(remaining)].node][i],
                                 FALSE)]))

\* PostorderIterator(Node &root)
PostorderIterator(tree) == expand_head(tree, <<Pending(1, FALSE)>>)

\* PostorderIterator::operator++
Postorder_increment(tree, remaining) ==
  expand_head(tree, SubSeq(remaining, 1, Len(remaining) - 1))

IterInit ==
  /\ SymIdle
  /\ FlatIdle
  /\ ValIdle
  /\ ChkIdle
  /\ SmtIdle
  /\ GenIdle
  /\ CopyIdle
  /\ IterIdle
  /\ DeclIdle

\* for (Node *n : tree.preorder()): begin()
PreorderBegin ==
  /\ it.order = "none"
  /\ \E tree \in Trees :
       it' = [order |-> "pre", tree |-> tree,
              remaining |-> PreorderIterator(tree), yielded |-> <<>>]
  /\ UNCHANGED iter_frame

\* for (Node *n : tree.postorder()): begin()
PostorderBegin ==
  /\ it.order = "none"
  /\ \E tree \in Trees :
       it' = [order |-> "post", tree |-> tree,
              remaining |-> PostorderIterator(tree), yielded |-> <<>>]
  /\ UNCHANGED iter_frame

\* One turn of the loop: the iterator is not end(), *it is taken, ++it.
PreorderStep ==
  /\ it.order = "pre"
  /\ it.remaining # <<>>
  /\ it' = [it EXCEPT
              !.yielded = Append(@, it.remaining[Len(it.remaining)]),
              !.remaining = Preorder_increment(it.tree, it.remaining)]
  /\ UNCHANGED iter_frame

PostorderStep ==
  /\ it.order = "post"
  /\ it.remaining # <<>>
  /\ it' = [it EXCEPT
              !.yielded = Append(@, it.remaining[Len(it.remaining)].node),
              !.remaining = Postorder_increment(it.tree, it.remaining)]
  /\ UNCHANGED iter_frame

IterNext ==
  \/ PreorderBegin
  \/ PostorderBegin
  \/ PreorderStep
  \/ PostorderStep

\* The loop over an iterator goes on until the iterator is end().
IterLiveSpec == IterInit /\ [][IterNext]_vars /\ WF_vars(IterNext)

\* ---------------------------------------------------- claims on iteration

\* Every node yielded so far was yielded once.
YieldedOnce ==
  \A i, j \in DOMAIN it.yielded : it.yielded[i] = it.yielded[j] => i = j

YieldedBefore(a, i) == \E j \in 1..(i - 1) : it.yielded[j] = a

\* Pre-order: the parent and the siblings to the left of a yielded node
\* were yielded before it.
ParentFirst ==
  \A i \in DOMAIN it.yielded :
    \A a \in DOMAIN it.tree :
      \A k \in DOMAIN it.tree[a] :
        it.tree[a][k] = it.yielded[i] =>
          /\ YieldedBefore(a, i)
          /\ \A l \in 1..(k - 1) : YieldedBefore(it.tree[a][l], i)

\* Post-order: the children of a yielded node were yielded before it.
ChildrenFirst ==
  \A i \in DOMAIN it.yielded :
    \A k \in DOMAIN it.tree[it.yielded[i]] :
      YieldedBefore(it.tree[it.yielded[i]][k], i)

\* The iterator is end() and every node has been yielded.
AtEnd ==
  /\ it.order # "none"
  /\ it.remaining = <<>>
  /\ {it.yielded[i] : i \in DOMAIN it.yielded} = DOMAIN it.tree

\* C24: the pre-order and the post-order iterator each yield every node
\* of the tree exactly once and then are at end; pre-order yields a node
\* after its parent and after its siblings to the left, post-order yields
\* a node after its children.
C24_IteratorsYieldEveryNodeOnce ==
  /\ [](it.order # "none" => YieldedOnce)
  /\ [](it.order = "pre" => ParentFirst)
  /\ [](it.order = "post" => ChildrenFirst)
  /\ <>[]AtEnd

\* The post-order iterator is at end on a tree of five nodes whose root
\* has a child with children of its own.
C24_Witness ==
  /\ it.order = "post"
  /\ it.remaining = <<>>
  /\ Len(it.yielded) = 5
  /\ it.yielded[5] = 1
  /\ it.yielded # <<5, 4, 3, 2, 1>>
  /\ \E a \in 2..5 : it.tree[a] # <<>>

\* ------------------------------------------------ validation of declarations

MaxDecls == 3

\* A declaration and the value (or type) under it.  constant says whether
\* the value of a ConstDecl is a constant expression.
Declarations ==
  {[kind |-> "ConstDecl", constant |-> c] : c \in BOOLEAN}
  \cup {[kind |-> "TypeDecl", constant |-> FALSE],
        [kind |-> "VarDecl", constant |-> FALSE]}

DeclLists ==
  UNION {[1..n -> Declarations] : n \in 1..MaxDecls}

\* The nodes of a list of declarations: declaration k is at 2k - 1 and the
\* node under it at 2k.
DeclTree(ds) ==
  [a \in 1..(2 * Len(ds)) |->
     IF a % 2 = 1
     THEN [kind |-> ds[(a + 1) \div 2].kind, value |-> <<a + 1>>,
           constant |-> FALSE]
     ELSE [kind |-> IF ds[a \div 2].kind = "ConstDecl" THEN "Expr"
                    ELSE "TypeExpr",
           value |-> <<>>, constant |-> ds[a \div 2].constant]]

\* The order the validation pass visits the nodes in: children first.
PassOrder(tree) ==
  [i \in 1..Len(tree) |-> IF i % 2 = 1 THEN i + 1 ELSE i - 1]

\* The validate of a node under a declaration is entered; it calls nothing
\* that is counted here.
Child_validate(runs, a) == [runs EXCEPT ![a] = @ + 1]

\* ConstDecl::validate: value->validate(), then the check that the value
\* is constant.
ConstDecl_validate(tree, runs, a) ==
  [runs |-> Child_validate([runs EXCEPT ![a] = @ + 1], tree[a].value[1]),
   thrown |-> ~tree[tree[a].value[1]].constant]

\* TypeDecl::validate: value->validate().
TypeDecl_validate(tree, runs, a) ==
  [runs |-> Child_validate([runs EXCEPT ![a] = @ + 1], tree[a].value[1]),
   thrown |-> FALSE]

\* Node::validate, which VarDecl does not override: nothing.
Node_validate(tree, runs, a) ==
  [runs |-> [runs EXCEPT ![a] = @ + 1], thrown |-> FALSE]

\* n.validate(): the virtual call.
validate(tree, runs, a) ==
  CASE tree[a].kind = "ConstDecl" -> ConstDecl_validate(tree, runs, a)
    [] tree[a].kind = "TypeDecl" -> TypeDecl_validate(tree, runs, a)
    [] OTHER -> Node_validate(tree, runs, a)

DeclInit ==
  /\ SymIdle
  /\ FlatIdle
  /\ ValIdle
  /\ ChkIdle
  /\ SmtIdle
  /\ GenIdle
  /\ CopyIdle
  /\ IterIdle
  /\ DeclIdle

\* The validation pass is started on a list of declarations.
PassBegin ==
  /\ dv.pc = "none"
  /\ \E ds \in DeclLists :
       dv' = [pc |-> "pass", tree |-> DeclTree(ds),
              todo |-> PassOrder(DeclTree(ds)),
              runs |-> [a \in 1..(2 * Len(ds)) |-> 0]]
  /\ UNCHANGED decl_frame

\* The pass calls validate on the next node; an error ends the pass.
PassVisit ==
  /\ dv.pc = "pass"
  /\ dv.todo # <<>>
  /\ LET r == validate(dv.tree, dv.runs, Head(dv.todo))
     IN  dv' = [dv EXCEPT !.runs = r.runs,
                          !.todo = Tail(@),
                          !.pc = IF r.thrown THEN "thrown" ELSE "pass"]
  /\ UNCHANGED decl_frame

\* The pass has called validate on every node.
PassEnd ==
  /\ dv.pc = "pass"
  /\ dv.todo = <<>>
  /\ dv' = [dv EXCEPT !.pc = "done"]
  /\ UNCHANGED decl_frame

DeclNext ==
  \/ PassBegin
  \/ PassVisit
  \/ PassEnd

DeclSpec == DeclInit /\ [][DeclNext]_vars

\* C25: validate does not call validate on the node's children, a
\* ConstDecl's and a TypeDecl's value included: no node's validate runs
\* twice, and when the pass has called validate on every node each node's
\* validate has run exactly once.
C25_ValidateRunsOnce ==
  /\ \A a \in DOMAIN dv.runs : dv.runs[a] <= 1
  /\ dv.pc = "done" => \A a \in DOMAIN dv.runs : dv.runs[a] = 1

====
